---- MODULE Spec2Model ----
(***************************************************************************)
(* shm_comm: named shared-memory ring buffers (buffer.py), the file lock   *)
(* of the push/pull pattern (sync.py), the poll loop (utils.py) and the    *)
(* Pusher / Puller / Publisher / Subscriber endpoints (patterns/).         *)
(*                                                                         *)
(* A segment is modelled by its header cells and its slot array (length    *)
(* prefix + payload bytes); every thread that is inside a library call by  *)
(* its position and locals.  Header loads/stores and whole-slot            *)
(* reads/writes are the atomic steps.  The push, pub and direct-buffer     *)
(* systems share one segment; the Replier / Requester service has its own  *)
(* request and reply segments.                                             *)
(***************************************************************************)
EXTENDS Integers, Sequences, FiniteSets, Bags, TLC

\* ---------------------------------------------------------------- bounds
NumSlots == 3          \* num_slots given to create_segment
SlotSize == 6          \* slot_size given to create_segment
MaxMsgs  == 3          \* number of Pusher.send calls explored
MaxPubs  == 6          \* number of Publisher.send calls explored
MaxWrites == 4         \* number of direct write_message calls explored
MaxReqs  == 3          \* number of Requester.send / request calls explored
MaxCloses == 2         \* number of close calls explored per endpoint
MaxPolls == 2          \* number of sleeps explored per attach_segment call
MaxRequesters == 2     \* number of Requesters constructed on a service, one after the other
Pullers  == {1, 2}     \* Puller endpoints attached to the push channel
FileLocks == {1, 2, 3} \* FileLock objects made for one lock name and used directly
Subscribers == {1, 2}  \* Subscriber endpoints that may attach to the pub channel
Owners == {1, 2}       \* owning endpoints of one channel: the first, and the one started
                       \* after the first is gone
Attachers == {3, 4}    \* attaching endpoints of that channel
Names == {1, 2}        \* the segment names of a channel

\* ------------------------------------------------------------- constants
SLOT_PREFIX_SIZE == 4
OP_NONE  == 78         \* pickle opcode 'N'
OP_FALSE == 137        \* pickle opcode NEWFALSE
OP_INT   == 75         \* pickle opcode BININT1
MAGIC == 1397247299    \* 0x53484D43, the upper half of MAGIC = 0x53484D434F4D4D31
VERSION == 1

VARIABLES
    hdr,        \* header cells HEAD, TAIL, MSG_COUNT, DROP_COUNT, NUM_SLOTS, SLOT_SIZE
    slots,      \* slot index -> [size, data]
    prod,       \* the producer thread inside Pusher.send / Publisher.send / write_message
    pull,       \* Puller i inside recv -> poll_until -> _try_claim
    lock,       \* holder of the flock on the channel's lock file, 0 = free; -k = held
                \* through a descriptor FileLock k has lost track of
    sub,        \* Subscriber i: private cursor, position inside recv, what it received;
                \* history: base = messages committed before it attached, start =
                \* sends returned before its first recv
    rdr,        \* a direct caller of read_message_spsc / read_message_shared_tail
    calls,      \* number of producer calls started
    sent,       \* history: messages whose send returned True, in order
    committed,  \* history: messages in the order HEAD was advanced past them
    taken,      \* history: the payloads claimed through TAIL, in the order of the TAIL stores
    rejected,   \* history: number of write calls that returned False
    got,        \* history: values returned by receive calls, in order
    lastw,      \* history: slot index -> payload of the last write into it
    rr_shm,     \* request/reply: channel ("req", "rep") -> segment [hdr, slots]
    rr_ep,      \* request/reply: endpoint ("requester", "replier") -> its thread
    flk,        \* FileLock object k used directly: position inside acquire, whether
                \* _fd is an open descriptor, outcome of its last two calls
    shm_names,  \* the OS namespace: segment name -> the segment it names, 0 = none
    shm_segs,   \* the segments ever allocated, by number: their header cells
    lc,         \* endpoint -> its position in its constructor or its life, the segment
                \* it holds for each name (0 = None), the error its constructor raised,
                \* and how often it slept in attach and was closed
    st,         \* a caller of get_stats: its position, the HEAD and TAIL it loaded, the
                \* dict it got last (num_slots = 0: none yet); history: the number of
                \* HEAD and of TAIL stores made when it loaded HEAD
    fu,         \* a caller of force_unlink: its position, the name it passed, what its
                \* last two calls returned; history: the name of the last call and the
                \* number of segments allocated when it returned
    chan,       \* the names the endpoints of the channel use: one for pub/sub and
                \* push/pull, two (requests, replies) for req/rep
    rr_log      \* history of the request/reply calls: requests and replies handed to
                \* send, values returned by the Replier's and the Requester's recv,
                \* the request the Replier has received and not answered yet, the last
                \* request sent, whether the calls came in cycle order, and whether
                \* the Requester alternated send and recv

\* the variables of the request/reply service
rrvars == <<rr_shm, rr_ep, rr_log>>

\* the variables of the single-segment channels
chvars == <<hdr, slots, prod, pull, lock, sub, rdr, calls, sent, committed, taken, rejected, got, lastw>>

\* the variables of the lock objects and of the segment namespace
lcvars == <<shm_names, shm_segs, lc, chan>>

sysvars == <<flk, lcvars, st, fu>>

vars == <<hdr, slots, prod, pull, lock, sub, rdr, calls, sent, committed, taken, rejected, got, lastw,
          rr_shm, rr_ep, rr_log, flk, shm_names, shm_segs, lc, chan, st, fu>>

\* ------------------------------------------------------- Python values
NoneObj   == [t |-> "none",  v |-> 0]
FalseObj  == [t |-> "false", v |-> 0]
IntObj(n) == [t |-> "int",   v |-> n]
BytesObj(b) == [t |-> "bytes", v |-> b]
ErrObj    == [t |-> "SHMSerializationError", v |-> 0]

\* serialize(obj, "pickle"): the pickle encoding, abstracted to opcode + operand
serialize(obj) ==
    CASE obj.t = "none"  -> <<OP_NONE>>
      [] obj.t = "false" -> <<OP_FALSE>>
      [] obj.t = "int"   -> <<OP_INT, obj.v>>
      [] obj.t = "bytes" -> obj.v

\* deserialize(data, "pickle")
deserialize(data) ==
    IF Len(data) = 1 /\ data[1] = OP_NONE THEN NoneObj
    ELSE IF Len(data) = 1 /\ data[1] = OP_FALSE THEN FalseObj
    ELSE IF Len(data) = 2 /\ data[1] = OP_INT THEN IntObj(data[2])
    ELSE ErrObj

\* ------------------------------------------------------------ slot I/O
MaxPayload == SlotSize - SLOT_PREFIX_SIZE

\* _write_slot: store the length prefix, then len(payload) bytes; the rest
\* of the slot keeps what it held
write_slot(sl, idx, payload) ==
    [sl EXCEPT ![idx] =
        [size |-> Len(payload),
         data |-> [i \in 1..MaxPayload |->
                      IF i <= Len(payload) THEN payload[i] ELSE sl[idx].data[i]]]]

\* _read_slot: load the length prefix, copy that many bytes out
read_slot_whole(sl, idx) == sl[idx].data

read_slot(sl, idx) == SubSeq(sl[idx].data, 1, sl[idx].size)

next_index(i) == (i + 1) % hdr.NUM_SLOTS

\* the full test of write_message's non-overwrite loop
ring_full_nomod(head, tail) == head + 1 = tail

ring_full(head, tail) == (head + 1) % hdr.NUM_SLOTS = tail

\* the empty test of both read paths
ring_empty_ordered(cursor, head) == cursor > head

ring_empty(cursor, head) == cursor = head

\* the size test at the top of write_message
oversized_noprefix(payload) == Len(payload) > hdr.SLOT_SIZE

oversized(payload) == Len(payload) > hdr.SLOT_SIZE - SLOT_PREFIX_SIZE

\* ---------------------------------------------------------------- Init
IdleProd == [pc |-> "idle", obj |-> NoneObj, payload |-> <<>>, block |-> FALSE,
             deadline |-> FALSE, overwrite |-> FALSE, head |-> 0,
             waited |-> FALSE, ret |-> "none"]

\* the producer thread after its call has returned r or raised r
Returned(p, r) == [IdleProd EXCEPT !.ret = r, !.waited = p.waited]

\* raised: the last recv ended in SHMSerializationError
IdlePull == [pc |-> "idle", finite |-> FALSE, tail |-> 0, raw |-> <<>>, hit |-> FALSE,
             raised |-> FALSE, size |-> 0]

\* a Subscriber that has not been constructed yet
NewSub == [pc |-> "new", finite |-> FALSE, zero |-> FALSE, tail |-> 0, raw |-> <<>>,
           hit |-> FALSE, base |-> 0, start |-> -1, got |-> <<>>, size |-> 0]

\* a direct caller of the read functions, holding its own local_tail
IdleRdr == [pc |-> "idle", kind |-> "spsc", cursor |-> 0, tail |-> 0, raw |-> <<>>,
            expect |-> <<>>, ret |-> "none"]

\* _init_header on a fresh segment: cursors and counters zero, geometry set;
\* the slot area of a new segment is zero-filled
InitSegment ==
    /\ hdr = [HEAD |-> 0, TAIL |-> 0, MSG_COUNT |-> 0, DROP_COUNT |-> 0,
              NUM_SLOTS |-> NumSlots, SLOT_SIZE |-> SlotSize]
    /\ slots = [s \in 0..(NumSlots - 1) |->
                   [size |-> 0, data |-> [i \in 1..MaxPayload |-> 0]]]

InitHistory ==
    /\ calls = 0
    /\ sent = <<>>
    /\ committed = <<>>
    /\ taken = <<>>
    /\ rejected = 0
    /\ got = <<>>
    /\ lastw = [s \in 0..(NumSlots - 1) |-> <<>>]

\* an endpoint of the request/reply service between calls: its private
\* cursor (_req_tail / _rep_tail) starts at 0
IdleEp == [pc |-> "idle", call |-> "none", obj |-> NoneObj, payload |-> <<>>, head |-> 0,
           tail |-> 0, finite |-> FALSE, raw |-> <<>>, hit |-> FALSE,
           ret |-> "none", val |-> NoneObj]

\* Replier.__init__ creates both segments with the same geometry, then the
\* Requester attaches; nothing has been called yet
InitReqRep ==
    /\ rr_shm = [c \in {"req", "rep"} |->
                   [hdr |-> [HEAD |-> 0, TAIL |-> 0, MSG_COUNT |-> 0, DROP_COUNT |-> 0,
                             NUM_SLOTS |-> NumSlots, SLOT_SIZE |-> SlotSize],
                    slots |-> [s \in 0..(NumSlots - 1) |->
                                  [size |-> 0, data |-> [i \in 1..MaxPayload |-> 0]]]]]
    /\ rr_ep = [e \in {"requester", "replier"} |-> IdleEp]
    /\ rr_log = [reqs |-> <<>>, reps |-> <<>>, rp_got |-> <<>>, rq_got |-> <<>>,
                 pending |-> NoneObj, last |-> NoneObj, phase |-> 0, inorder |-> TRUE,
                 turn |-> "send", paired |-> TRUE, gen |-> 1, seen |-> 0, old |-> {}]

\* FileLock.__init__: no descriptor yet
NewFileLock == [pc |-> "idle", fd |-> FALSE, finite |-> FALSE, ret |-> "none", prev |-> "none"]

\* no get_stats call has been made
NoStats == [pc |-> "idle", head |-> 0, tail |-> 0, c |-> 0, t |-> 0,
            out |-> [head |-> 0, tail |-> 0, num_slots |-> 0, slot_size |-> 0,
                     msg_count |-> 0, drop_count |-> 0, used_slots |-> 0, free_slots |-> 0]]

\* no force_unlink call has been made
NoUnlink == [pc |-> "idle", name |-> 0, ret |-> "none", prev |-> "none", last |-> 0, segs |-> 0]

\* an endpoint object before its constructor runs
NewEndpoint == [pc |-> "new", k |-> 1, shm |-> [n \in Names |-> 0], err |-> "none",
                polls |-> 0, closes |-> 0]

\* no segment exists and no endpoint has been constructed
InitNamespace ==
    /\ shm_names = [n \in Names |-> 0]
    /\ shm_segs = <<>>
    /\ lc = [e \in Owners \cup Attachers |-> NewEndpoint]

InitChannels ==
    /\ InitSegment
    /\ InitHistory
    /\ prod = IdleProd
    /\ pull = [i \in Pullers |-> IdlePull]
    /\ lock = 0
    /\ sub = [i \in Subscribers |-> NewSub]
    /\ rdr = IdleRdr
    /\ InitReqRep
    /\ flk = [k \in FileLocks |-> NewFileLock]
    /\ InitNamespace
    /\ st = NoStats
    /\ fu = NoUnlink

Init ==
    /\ InitChannels
    /\ chan = <<1>>

\* the endpoints are those of a one-segment channel or of a req/rep service
InitLife ==
    /\ InitChannels
    /\ chan \in {<<1>>, <<1, 2>>}

\* ------------------------------------------------------- write_message
\* Entry of write_message: load the geometry, reject an oversized payload,
\* set up the deadline, enter the wait loop (non-overwrite) or go straight
\* to the slot write (overwrite).  block and the deadline are read only by
\* the non-overwrite loop, so an overwrite call keeps neither.
write_message(obj, payload, block, timeout, overwrite) ==
    /\ prod.pc = "idle"
    /\ calls' = calls + 1
    /\ IF oversized(payload)
       THEN prod' = [IdleProd EXCEPT !.ret = "ValueError", !.payload = payload,
                                     !.overwrite = overwrite]
       ELSE prod' = [IdleProd EXCEPT !.obj = obj, !.payload = payload,
                                     !.block = (block /\ ~overwrite), !.overwrite = overwrite,
                                     !.deadline = (block /\ timeout /\ ~overwrite),
                                     !.pc = IF overwrite THEN "write" ELSE "loop"]
    /\ UNCHANGED <<hdr, slots, pull, lock, sub, rdr, sent, committed, taken, rejected, got, lastw, rrvars, sysvars>>

\* what one pass of the loop at lines 140-157 decides: leave the loop, drop,
\* raise, or sleep and retry
loop_outcome_noblock(full, block, expired) ==
    IF ~full THEN "break" ELSE "drop"

loop_outcome(full, block, expired) ==
    IF ~full THEN "break"
    ELSE IF ~block THEN "drop"
    ELSE IF expired THEN "raise"
    ELSE "sleep"

\* the header after the pass: only a drop stores, DROP_COUNT += 1 (line 149)
loop_effect_nocount(outcome, h) == h

loop_effect_timeouts(outcome, h) ==
    IF outcome \in {"drop", "raise"} THEN [h EXCEPT !.DROP_COUNT = @ + 1] ELSE h

loop_effect(outcome, h) ==
    IF outcome = "drop" THEN [h EXCEPT !.DROP_COUNT = @ + 1] ELSE h

\* One pass of the loop at lines 140-157: load HEAD and TAIL, then leave the
\* loop, drop and return False, raise SHMBufferFullError once the deadline
\* has passed, or sleep and retry.
wm_loop ==
    /\ prod.pc = "loop"
    /\ \E expired \in {FALSE, prod.deadline} :
         LET head == hdr.HEAD
             tail == hdr.TAIL
             outcome == loop_outcome(ring_full(head, tail), prod.block, expired)
         IN /\ hdr' = loop_effect(outcome, hdr)
            /\ rejected' = IF outcome = "drop" THEN rejected + 1 ELSE rejected
            /\ prod' = CASE outcome = "break" -> [prod EXCEPT !.pc = "write"]
                         [] outcome = "drop"  -> Returned(prod, "False")
                         [] outcome = "raise" -> Returned(prod, "SHMBufferFullError")
                         [] outcome = "sleep" -> [prod EXCEPT !.waited = TRUE]
    /\ UNCHANGED <<slots, pull, lock, sub, rdr, calls, sent, committed, taken, got, lastw, rrvars, sysvars>>

\* lines 159-162: reload HEAD and write the slot it names
wm_write ==
    /\ prod.pc = "write"
    /\ LET head == hdr.HEAD
       IN /\ slots' = write_slot(slots, head, prod.payload)
          /\ lastw' = [lastw EXCEPT ![head] = prod.payload]
          /\ prod' = [prod EXCEPT !.pc = "commit", !.head = head]
    /\ UNCHANGED <<hdr, pull, lock, sub, rdr, calls, sent, committed, taken, rejected, got, rrvars, sysvars>>

\* line 165: the commit, HEAD <- next_head
wm_commit ==
    /\ prod.pc = "commit"
    /\ hdr' = [hdr EXCEPT !.HEAD = next_index(prod.head)]
    /\ committed' = Append(committed, prod.obj)
    /\ prod' = [prod EXCEPT !.pc = "count"]
    /\ UNCHANGED <<slots, pull, lock, sub, rdr, calls, sent, taken, rejected, got, lastw, rrvars, sysvars>>

\* lines 166-171: MSG_COUNT += 1, return True
wm_count_skipped ==
    /\ prod.pc = "count"
    /\ sent' = Append(sent, prod.obj)
    /\ prod' = Returned(prod, "True")
    /\ UNCHANGED <<hdr, slots, pull, lock, sub, rdr, calls, committed, taken, rejected, got, lastw, rrvars, sysvars>>

wm_count ==
    /\ prod.pc = "count"
    /\ hdr' = [hdr EXCEPT !.MSG_COUNT = @ + 1]
    /\ sent' = Append(sent, prod.obj)
    /\ prod' = Returned(prod, "True")
    /\ UNCHANGED <<slots, pull, lock, sub, rdr, calls, committed, taken, rejected, got, lastw, rrvars, sysvars>>

\* ---------------------------------------------------------------- Pusher
\* The objects the next send may carry: the call's sequence number, or one
\* of the two values poll_until does not accept (None on odd calls, False on
\* even calls)
Objects == {IntObj(calls + 1), IF calls % 2 = 0 THEN NoneObj ELSE FalseObj}

\* Pusher.send(data, block, timeout): serialize, then write_message without
\* overwrite
Pusher_send ==
    /\ calls < MaxMsgs
    /\ \E obj \in Objects, block \in BOOLEAN, timeout \in BOOLEAN :
        write_message(obj, serialize(obj), block, timeout, FALSE)

\* Pusher.send_bytes(data, block, timeout): the caller's bytes go to
\* write_message as they are; they may or may not be a pickle
Pusher_send_bytes ==
    /\ calls < MaxMsgs
    /\ \E data \in {serialize(IntObj(calls + 1)), <<calls + 1>>},
          block \in BOOLEAN, timeout \in BOOLEAN :
        write_message(BytesObj(data), data, block, timeout, FALSE)

\* ---------------------------------------------------------------- Puller
\* Puller.recv(timeout): enter poll_until(_try_claim, timeout)
Puller_recv(i) ==
    /\ pull[i].pc = "idle"
    /\ \E finite \in BOOLEAN :
         pull' = [pull EXCEPT ![i] = [IdlePull EXCEPT !.pc = "acquire", !.finite = finite]]
    /\ UNCHANGED <<hdr, slots, prod, lock, sub, rdr, calls, sent, committed, taken, rejected, got, lastw, rrvars, sysvars>>

\* FileLock.acquire: flock(LOCK_EX | LOCK_NB) succeeds only on a free lock;
\* otherwise the caller sleeps and retries
FileLock_acquire_shared(i) ==
    /\ pull[i].pc = "acquire"
    /\ lock' = i
    /\ pull' = [pull EXCEPT ![i].pc = "load"]
    /\ UNCHANGED <<hdr, slots, prod, sub, rdr, calls, sent, committed, taken, rejected, got, lastw, rrvars, sysvars>>

FileLock_acquire(i) ==
    /\ pull[i].pc = "acquire"
    /\ lock = 0
    /\ lock' = i
    /\ pull' = [pull EXCEPT ![i].pc = "load"]
    /\ UNCHANGED <<hdr, slots, prod, sub, rdr, calls, sent, committed, taken, rejected, got, lastw, rrvars, sysvars>>

\* read_message_shared_tail lines 240-247: load HEAD and TAIL, test for empty
rst_load(i) ==
    /\ pull[i].pc = "load"
    /\ LET head == hdr.HEAD
           tail == hdr.TAIL
       IN pull' = [pull EXCEPT ![i].tail = IF ring_empty(tail, head) THEN 0 ELSE tail,
                               ![i].hit = ~ring_empty(tail, head),
                               ![i].pc = IF ring_empty(tail, head) THEN "release" ELSE "read"]
    /\ UNCHANGED <<hdr, slots, prod, lock, sub, rdr, calls, sent, committed, taken, rejected, got, lastw, rrvars, sysvars>>

\* line 249: copy the payload out of slot TAIL
rst_read(i) ==
    /\ pull[i].pc = "read"
    /\ pull' = [pull EXCEPT ![i].raw = read_slot(slots, pull[i].tail), ![i].pc = "store"]
    /\ UNCHANGED <<hdr, slots, prod, lock, sub, rdr, calls, sent, committed, taken, rejected, got, lastw, rrvars, sysvars>>

\* line 250: TAIL <- (tail + 1) % num_slots
rst_store(i) ==
    /\ pull[i].pc = "store"
    /\ hdr' = [hdr EXCEPT !.TAIL = next_index(pull[i].tail)]
    /\ taken' = Append(taken, pull[i].raw)
    /\ pull' = [pull EXCEPT ![i].pc = "release", ![i].tail = 0]
    /\ UNCHANGED <<slots, prod, lock, sub, rdr, calls, sent, committed, rejected, got, lastw, rrvars, sysvars>>

\* leaving the with-block without unlocking
FileLock_release_kept(i) ==
    /\ pull[i].pc = "release"
    /\ lock' = lock
    /\ pull' = [pull EXCEPT ![i].pc = "result"]
    /\ UNCHANGED <<hdr, slots, prod, sub, rdr, calls, sent, committed, taken, rejected, got, lastw, rrvars, sysvars>>

\* FileLock.release on leaving the with-block of _try_claim
FileLock_release(i) ==
    /\ pull[i].pc = "release"
    /\ lock' = IF lock = i THEN 0 ELSE lock
    /\ pull' = [pull EXCEPT ![i].pc = "result"]
    /\ UNCHANGED <<hdr, slots, prod, sub, rdr, calls, sent, committed, taken, rejected, got, lastw, rrvars, sysvars>>

\* what poll_until hands back: a result that "is not None and is not False"
poll_accepts(result) == result.t # "none" /\ result.t # "false"

\* _try_claim lines 238-240 and poll_until lines 78-85: deserialize what was
\* taken, which raises out of recv when it fails; return it if poll_until
\* accepts it, return None once the deadline has passed, else sleep and call
\* _try_claim again
poll_until_claim(i) ==
    /\ pull[i].pc = "result"
    /\ LET result == IF pull[i].hit THEN deserialize(pull[i].raw) ELSE NoneObj
       IN IF result = ErrObj
          THEN /\ pull' = [pull EXCEPT ![i] = [IdlePull EXCEPT !.raised = TRUE]]
               /\ UNCHANGED got
          ELSE IF poll_accepts(result)
          THEN /\ got' = Append(got, result)
               /\ pull' = [pull EXCEPT ![i] = IdlePull]
          ELSE /\ \E expired \in {FALSE, pull[i].finite} :
                    pull' = [pull EXCEPT ![i] =
                                IF expired THEN IdlePull
                                ELSE [IdlePull EXCEPT !.pc = "acquire",
                                                      !.finite = pull[i].finite]]
               /\ UNCHANGED got
    /\ UNCHANGED <<hdr, slots, prod, lock, sub, rdr, calls, sent, committed, taken, rejected, lastw, rrvars, sysvars>>

\* ------------------------------------------------- Publisher / Subscriber
\* Publisher.send(data, block, timeout): block and timeout are ignored, the
\* write is always write_message(payload, overwrite=True)
Publisher_send_respecting ==
    /\ calls < MaxPubs
    /\ \E obj \in Objects, block \in BOOLEAN, timeout \in BOOLEAN :
        write_message(obj, serialize(obj), block, timeout, FALSE)

Publisher_send ==
    /\ calls < MaxPubs
    /\ \E obj \in Objects, block \in BOOLEAN, timeout \in BOOLEAN :
        write_message(obj, serialize(obj), FALSE, FALSE, TRUE)

\* a constructor that starts the private cursor at slot 0
Subscriber_init_zero(i) ==
    /\ sub[i].pc = "new"
    /\ sub' = [sub EXCEPT ![i].pc = "idle", ![i].tail = 0,
                          ![i].base = Len(committed)]
    /\ UNCHANGED <<hdr, slots, prod, pull, lock, rdr, calls, sent, committed, taken, rejected, got, lastw, rrvars, sysvars>>

\* Subscriber.__init__ after attach: the private cursor starts at the HEAD
\* current now
Subscriber_init(i) ==
    /\ sub[i].pc = "new"
    /\ sub' = [sub EXCEPT ![i].pc = "idle", ![i].tail = hdr.HEAD,
                          ![i].base = Len(committed)]
    /\ UNCHANGED <<hdr, slots, prod, pull, lock, rdr, calls, sent, committed, taken, rejected, got, lastw, rrvars, sysvars>>

\* Subscriber.recv(timeout): enter poll_until(_try_recv, timeout)
Subscriber_recv(i) ==
    /\ sub[i].pc = "idle"
    /\ \E finite \in BOOLEAN :
         sub' = [sub EXCEPT ![i].pc = "load", ![i].finite = finite,
                            ![i].raw = <<>>, ![i].hit = FALSE,
                            ![i].start = IF @ = -1 THEN Len(sent) ELSE @]
    /\ UNCHANGED <<hdr, slots, prod, pull, lock, rdr, calls, sent, committed, taken, rejected, got, lastw, rrvars, sysvars>>

\* Subscriber.recv(timeout=0): the deadline is the time of the call
Subscriber_recv_now(i) ==
    /\ sub[i].pc = "idle"
    /\ sub' = [sub EXCEPT ![i].pc = "load", ![i].finite = TRUE, ![i].zero = TRUE,
                          ![i].raw = <<>>, ![i].hit = FALSE,
                          ![i].start = IF @ = -1 THEN Len(sent) ELSE @]
    /\ UNCHANGED <<hdr, slots, prod, pull, lock, rdr, calls, sent, committed, taken, rejected, got, lastw, rrvars, sysvars>>

\* read_message_spsc lines 200-206: load HEAD, compare with local_tail
rms_load(i) ==
    /\ sub[i].pc = "load"
    /\ LET head == hdr.HEAD
       IN sub' = [sub EXCEPT ![i].hit = ~ring_empty(sub[i].tail, head),
                             ![i].pc = IF ring_empty(sub[i].tail, head)
                                       THEN "result" ELSE "read"]
    /\ UNCHANGED <<hdr, slots, prod, pull, lock, rdr, calls, sent, committed, taken, rejected, got, lastw, rrvars, sysvars>>

\* a private-cursor read that publishes its cursor in TAIL
rms_read_storing(i) ==
    /\ sub[i].pc = "read"
    /\ sub' = [sub EXCEPT ![i].raw = read_slot(slots, sub[i].tail),
                          ![i].tail = next_index(sub[i].tail),
                          ![i].pc = "result"]
    /\ hdr' = [hdr EXCEPT !.TAIL = next_index(sub[i].tail)]
    /\ UNCHANGED <<slots, prod, pull, lock, rdr, calls, sent, committed, taken, rejected, got, lastw, rrvars, sysvars>>

\* read_message_spsc lines 208-217 and _try_recv lines 265-266: copy the
\* payload out of slot local_tail, advance the private cursor
rms_read(i) ==
    /\ sub[i].pc = "read"
    /\ sub' = [sub EXCEPT ![i].raw = read_slot(slots, sub[i].tail),
                          ![i].tail = next_index(sub[i].tail),
                          ![i].pc = "result"]
    /\ UNCHANGED <<hdr, slots, prod, pull, lock, rdr, calls, sent, committed, taken, rejected, got, lastw, rrvars, sysvars>>

\* poll_until whose deadline test may still fail right after a timeout of 0
poll_until_recv_late(i) ==
    /\ sub[i].pc = "result"
    /\ LET result == IF sub[i].hit THEN deserialize(sub[i].raw) ELSE NoneObj
       IN IF poll_accepts(result)
          THEN sub' = [sub EXCEPT ![i].got = Append(@, result), ![i].pc = "idle",
                                  ![i].raw = <<>>, ![i].hit = FALSE, ![i].finite = FALSE,
                                  ![i].zero = FALSE]
          ELSE \E expired \in {FALSE, sub[i].finite} :
                 sub' = [sub EXCEPT ![i].pc = IF expired THEN "idle" ELSE "load",
                                    ![i].finite = IF expired THEN FALSE ELSE @,
                                    ![i].zero = IF expired THEN FALSE ELSE @,
                                    ![i].raw = <<>>, ![i].hit = FALSE]
    /\ UNCHANGED <<hdr, slots, prod, pull, lock, rdr, calls, sent, committed, taken, rejected, got, lastw, rrvars, sysvars>>

\* _try_recv line 267 and poll_until lines 78-85: the result is returned if it is
\* accepted; otherwise None is returned if the clock has reached the deadline,
\* which it has at once when the timeout was 0 and never does when it was None
poll_until_recv(i) ==
    /\ sub[i].pc = "result"
    /\ LET result == IF sub[i].hit THEN deserialize(sub[i].raw) ELSE NoneObj
       IN IF poll_accepts(result)
          THEN sub' = [sub EXCEPT ![i].got = Append(@, result), ![i].pc = "idle",
                                  ![i].raw = <<>>, ![i].hit = FALSE, ![i].finite = FALSE,
                                  ![i].zero = FALSE]
          ELSE \E expired \in (IF sub[i].zero THEN {TRUE} ELSE {FALSE, sub[i].finite}) :
                 sub' = [sub EXCEPT ![i].pc = IF expired THEN "idle" ELSE "load",
                                    ![i].finite = IF expired THEN FALSE ELSE @,
                                    ![i].zero = IF expired THEN FALSE ELSE @,
                                    ![i].raw = <<>>, ![i].hit = FALSE]
    /\ UNCHANGED <<hdr, slots, prod, pull, lock, rdr, calls, sent, committed, taken, rejected, got, lastw, rrvars, sysvars>>

\* ------------------------------------------- direct use of the ring buffer
\* the k-th payload handed to write_message by a direct caller, n bytes long
Payload(k, n) == [i \in 1..n |-> 10 * k + i]

\* the payload lengths a direct caller tries: empty, one byte, the longest
\* that fits, and one byte too many
Lengths == {0, 1, MaxPayload, MaxPayload + 1}

\* write_message(shm, payload, block=, timeout=, overwrite=) called directly
write_call ==
    /\ calls < MaxWrites
    /\ \E n \in Lengths, block \in BOOLEAN, timeout \in BOOLEAN, overwrite \in BOOLEAN :
        write_message(BytesObj(Payload(calls + 1, n)), Payload(calls + 1, n),
                      block, timeout, overwrite)

\* a call of read_message_spsc(shm, local_tail) or read_message_shared_tail(shm)
read_call ==
    /\ rdr.pc = "idle"
    /\ \E kind \in {"spsc", "shared"} :
         rdr' = [IdleRdr EXCEPT !.pc = "load", !.kind = kind, !.cursor = rdr.cursor]
    /\ UNCHANGED <<hdr, slots, prod, pull, lock, sub, calls, sent, committed, taken, rejected, got, lastw, rrvars, sysvars>>

\* both read functions: load HEAD (and TAIL on the shared path), test for empty
rd_load ==
    /\ rdr.pc = "load"
    /\ LET head == hdr.HEAD
           tail == IF rdr.kind = "spsc" THEN rdr.cursor ELSE hdr.TAIL
       IN rdr' = IF ring_empty(tail, head)
                 THEN [rdr EXCEPT !.pc = "idle", !.ret = "None"]
                 ELSE [rdr EXCEPT !.pc = "read", !.tail = tail]
    /\ UNCHANGED <<hdr, slots, prod, pull, lock, sub, calls, sent, committed, taken, rejected, got, lastw, rrvars, sysvars>>

\* both read functions: _read_slot; read_message_spsc then returns
\* (payload, new_tail), which the caller keeps as its local_tail
rd_read ==
    /\ rdr.pc = "read"
    /\ LET payload == read_slot(slots, rdr.tail)
       IN rdr' = IF rdr.kind = "spsc"
                 THEN [rdr EXCEPT !.raw = payload, !.expect = lastw[rdr.tail],
                                  !.cursor = next_index(rdr.tail),
                                  !.pc = "idle", !.ret = "payload"]
                 ELSE [rdr EXCEPT !.raw = payload, !.expect = lastw[rdr.tail],
                                  !.pc = "store"]
    /\ UNCHANGED <<hdr, slots, prod, pull, lock, sub, calls, sent, committed, taken, rejected, got, lastw, rrvars, sysvars>>

\* read_message_shared_tail line 250, then return the payload
rd_store ==
    /\ rdr.pc = "store"
    /\ hdr' = [hdr EXCEPT !.TAIL = next_index(rdr.tail)]
    /\ taken' = Append(taken, rdr.raw)
    /\ rdr' = [rdr EXCEPT !.pc = "idle", !.ret = "payload"]
    /\ UNCHANGED <<slots, prod, pull, lock, sub, calls, sent, committed, rejected, got, lastw, rrvars, sysvars>>

\* ------------------------------------------------- Replier / Requester
\* the channel an endpoint writes to and the channel it reads from
Out(e) == IF e = "requester" THEN "req" ELSE "rep"

In(e) == IF e = "requester" THEN "rep" ELSE "req"

\* the other endpoint of the service
Peer(e) == IF e = "requester" THEN "replier" ELSE "requester"

\* the position of a call in the cycle Requester.send, Replier.recv,
\* Replier.send, Requester.recv
CyclePos(e, call) ==
    CASE e = "requester" /\ call = "send" -> 0
      [] e = "replier"   /\ call = "recv" -> 1
      [] e = "replier"   /\ call = "send" -> 2
      [] e = "requester" /\ call = "recv" -> 3
      [] OTHER -> 4

\* history: whether the calls so far were made in cycle order, each begun
\* while the other endpoint was between calls
Logged(e, call) ==
    LET ok == /\ rr_log.inorder
              /\ rr_log.phase = CyclePos(e, call)
              /\ rr_ep[Peer(e)].pc = "idle"
        \* ... and whether the Requester has followed every send by one recv
        \* (request being both)
        pair == rr_log.paired /\ (e = "requester" =>
                                     rr_log.turn = (IF call = "recv" THEN "recv" ELSE "send"))
    IN [rr_log EXCEPT !.inorder = ok, !.phase = IF ok THEN (@ + 1) % 4 ELSE 0,
                      !.paired = pair,
                      !.turn = IF pair /\ ((e = "requester" /\ call = "send")
                                           \/ (e = "replier" /\ @ = "recv"))
                               THEN "recv" ELSE "send"]

\* an endpoint entering a call: it keeps its private cursor, the locals of
\* the last call are gone
Fresh(t) == [IdleEp EXCEPT !.tail = t.tail]

\* send(data) of either endpoint and the first line of Requester.request:
\* serialize, then write_message(shm, payload) with block, timeout and
\* overwrite left at their defaults
rr_send(e, call, obj, finite) ==
    LET payload == serialize(obj)
    IN rr_ep' = [rr_ep EXCEPT ![e] =
                    IF oversized(payload)
                    THEN [Fresh(@) EXCEPT !.ret = "ValueError"]
                    ELSE [Fresh(@) EXCEPT !.pc = "loop", !.call = call, !.obj = obj,
                                          !.payload = payload, !.finite = finite]]

\* the requests the next Requester call may carry: its sequence number, or
\* None
Requests == {IntObj(Len(rr_log.reqs) + 1), NoneObj}

\* Requester.send(data)
Requester_send ==
    /\ rr_ep["requester"].pc = "idle"
    /\ Len(rr_log.reqs) < MaxReqs
    /\ \E obj \in Requests :
         /\ rr_send("requester", "send", obj, FALSE)
         /\ rr_log' = [Logged("requester", "send") EXCEPT !.reqs = Append(@, obj)]
    /\ UNCHANGED <<rr_shm, chvars, sysvars>>

\* Requester.request(data, timeout): self.send(data), then self.recv(timeout)
Requester_request ==
    /\ rr_ep["requester"].pc = "idle"
    /\ Len(rr_log.reqs) < MaxReqs
    /\ \E obj \in Requests, finite \in BOOLEAN :
         /\ rr_send("requester", "request", obj, finite)
         /\ rr_log' = [Logged("requester", "request") EXCEPT !.reqs = Append(@, obj)]
    /\ UNCHANGED <<rr_shm, chvars, sysvars>>

\* the replies the Replier may give to the request it has received: an
\* answer that names the request, or False
Replies == {IntObj(10 + rr_log.pending.v), FalseObj}

\* Replier.send(data), called once for every request recv has returned
Replier_send ==
    /\ rr_ep["replier"].pc = "idle"
    /\ rr_log.pending # NoneObj
    /\ \E obj \in Replies :
         /\ rr_send("replier", "send", obj, FALSE)
         /\ rr_log' = [Logged("replier", "send") EXCEPT !.reps = Append(@, obj),
                                                        !.pending = NoneObj]
    /\ UNCHANGED <<rr_shm, chvars, sysvars>>

\* the endpoint after its send has returned r: a plain send is over,
\* Requester.request drops the value and goes on to self.recv(timeout)
Sent(t, r) ==
    IF t.call = "request"
    THEN [Fresh(t) EXCEPT !.pc = "load", !.call = "request", !.finite = t.finite]
    ELSE [Fresh(t) EXCEPT !.ret = r]

\* write_message lines 140-157 on the endpoint's outgoing channel, block=False
rr_wm_loop(e) ==
    /\ rr_ep[e].pc = "loop"
    /\ LET seg == rr_shm[Out(e)]
           outcome == loop_outcome(ring_full(seg.hdr.HEAD, seg.hdr.TAIL), FALSE, FALSE)
       IN /\ rr_shm' = [rr_shm EXCEPT ![Out(e)].hdr = loop_effect(outcome, seg.hdr)]
          /\ rr_ep' = [rr_ep EXCEPT ![e] = IF outcome = "break"
                                           THEN [@ EXCEPT !.pc = "write"]
                                           ELSE Sent(@, "False")]
    /\ UNCHANGED <<rr_log, chvars, sysvars>>

\* write_message lines 159-162
rr_wm_write(e) ==
    /\ rr_ep[e].pc = "write"
    /\ LET seg == rr_shm[Out(e)]
           head == seg.hdr.HEAD
       IN /\ rr_shm' = [rr_shm EXCEPT ![Out(e)].slots = write_slot(seg.slots, head, rr_ep[e].payload)]
          /\ rr_ep' = [rr_ep EXCEPT ![e].pc = "commit", ![e].head = head]
    /\ UNCHANGED <<rr_log, chvars, sysvars>>

\* write_message line 165
rr_wm_commit(e) ==
    /\ rr_ep[e].pc = "commit"
    /\ rr_shm' = [rr_shm EXCEPT ![Out(e)].hdr.HEAD = next_index(rr_ep[e].head)]
    /\ rr_ep' = [rr_ep EXCEPT ![e].pc = "count"]
    /\ UNCHANGED <<rr_log, chvars, sysvars>>

\* write_message lines 166-171
rr_wm_count(e) ==
    /\ rr_ep[e].pc = "count"
    /\ rr_shm' = [rr_shm EXCEPT ![Out(e)].hdr.MSG_COUNT = @ + 1]
    /\ rr_ep' = [rr_ep EXCEPT ![e] = Sent(@, "True")]
    /\ rr_log' = IF e = "requester" THEN [rr_log EXCEPT !.last = rr_ep[e].obj] ELSE rr_log
    /\ UNCHANGED <<chvars, sysvars>>

\* Requester.recv(timeout): poll_until(self._try_recv, timeout)
Requester_recv ==
    /\ rr_ep["requester"].pc = "idle"
    /\ \E finite \in BOOLEAN :
         rr_ep' = [rr_ep EXCEPT !["requester"] =
                      [Fresh(@) EXCEPT !.pc = "load", !.call = "recv", !.finite = finite]]
    /\ rr_log' = Logged("requester", "recv")
    /\ UNCHANGED <<rr_shm, chvars, sysvars>>

\* Replier.recv(timeout), called when every request received has been answered
Replier_recv ==
    /\ rr_ep["replier"].pc = "idle"
    /\ rr_log.pending = NoneObj
    /\ \E finite \in BOOLEAN :
         rr_ep' = [rr_ep EXCEPT !["replier"] =
                      [Fresh(@) EXCEPT !.pc = "load", !.call = "recv", !.finite = finite]]
    /\ rr_log' = Logged("replier", "recv")
    /\ UNCHANGED <<rr_shm, chvars, sysvars>>

\* _try_recv -> read_message_spsc lines 200-206 on the incoming channel
rr_rms_load(e) ==
    /\ rr_ep[e].pc = "load"
    /\ LET head == rr_shm[In(e)].hdr.HEAD
       IN rr_ep' = [rr_ep EXCEPT ![e].hit = ~ring_empty(rr_ep[e].tail, head),
                                 ![e].pc = IF ring_empty(rr_ep[e].tail, head)
                                           THEN "result" ELSE "read"]
    /\ UNCHANGED <<rr_shm, rr_log, chvars, sysvars>>

\* read_message_spsc lines 208-217 and _try_recv: copy the payload out,
\* advance the private cursor
rr_rms_read(e) ==
    /\ rr_ep[e].pc = "read"
    /\ rr_ep' = [rr_ep EXCEPT ![e].raw = read_slot(rr_shm[In(e)].slots, rr_ep[e].tail),
                              ![e].tail = next_index(rr_ep[e].tail),
                              ![e].pc = "result"]
    /\ UNCHANGED <<rr_shm, rr_log, chvars, sysvars>>

\* _try_recv's deserialize and poll_until lines 78-85; Requester.request
\* lines 313-318 turns recv's None into SHMTimeoutError
rr_poll_until(e) ==
    /\ rr_ep[e].pc = "result"
    /\ LET result == IF rr_ep[e].hit THEN deserialize(rr_ep[e].raw) ELSE NoneObj
       IN IF poll_accepts(result)
          THEN /\ rr_ep' = [rr_ep EXCEPT ![e] = [Fresh(@) EXCEPT !.ret = "value", !.val = result]]
               /\ rr_log' = IF e = "replier"
                            THEN [rr_log EXCEPT !.rp_got = Append(@, result), !.pending = result]
                            ELSE [rr_log EXCEPT !.rq_got = Append(@, result)]
          ELSE /\ \E expired \in {FALSE, rr_ep[e].finite} :
                    rr_ep' = [rr_ep EXCEPT ![e] =
                                 IF expired
                                 THEN [Fresh(@) EXCEPT !.ret = IF rr_ep[e].call = "request"
                                                               THEN "SHMTimeoutError"
                                                               ELSE "absent"]
                                 ELSE [@ EXCEPT !.pc = "load", !.hit = FALSE, !.raw = <<>>]]
               /\ UNCHANGED rr_log
    /\ UNCHANGED <<rr_shm, chvars, sysvars>>

\* the request/reply service: one Replier, one Requester
NextReqRep ==
    \/ Requester_send
    \/ Requester_request
    \/ Requester_recv
    \/ Replier_recv
    \/ Replier_send
    \/ \E e \in {"requester", "replier"} : rr_wm_loop(e)
    \/ \E e \in {"requester", "replier"} : rr_wm_write(e)
    \/ \E e \in {"requester", "replier"} : rr_wm_commit(e)
    \/ \E e \in {"requester", "replier"} : rr_wm_count(e)
    \/ \E e \in {"requester", "replier"} : rr_rms_load(e)
    \/ \E e \in {"requester", "replier"} : rr_rms_read(e)
    \/ \E e \in {"requester", "replier"} : rr_poll_until(e)

SpecReqRep == Init /\ [][NextReqRep]_vars

\* the replies committed to the reply channel so far: those Replier.send was
\* called with, but for one whose write has not stored HEAD yet
RepliesCommitted ==
    {rr_log.reps[k] : k \in 1..Len(rr_log.reps)}
        \ (IF rr_ep["replier"].pc \in {"loop", "write", "commit"}
           THEN {rr_ep["replier"].obj} ELSE {})

\* Requester.close, then Requester.__init__ of the next Requester of the service:
\* attach both segments, _rep_tail = 0
Requester_init ==
    /\ rr_ep["requester"].pc = "idle"
    /\ rr_log.gen < MaxRequesters
    /\ rr_ep' = [rr_ep EXCEPT !["requester"] = IdleEp]
    /\ rr_log' = [rr_log EXCEPT !.gen = @ + 1, !.seen = Len(rr_log.rq_got),
                                !.old = RepliesCommitted, !.turn = "send"]
    /\ UNCHANGED <<rr_shm, chvars, sysvars>>

\* the request/reply service with Requesters that come and go
NextReconnect ==
    \/ Requester_init
    \/ Requester_send
    \/ Requester_request
    \/ Requester_recv
    \/ Replier_recv
    \/ Replier_send
    \/ \E e \in {"requester", "replier"} : rr_wm_loop(e)
    \/ \E e \in {"requester", "replier"} : rr_wm_write(e)
    \/ \E e \in {"requester", "replier"} : rr_wm_commit(e)
    \/ \E e \in {"requester", "replier"} : rr_wm_count(e)
    \/ \E e \in {"requester", "replier"} : rr_rms_load(e)
    \/ \E e \in {"requester", "replier"} : rr_rms_read(e)
    \/ \E e \in {"requester", "replier"} : rr_poll_until(e)

SpecReconnect == Init /\ [][NextReconnect]_vars

\* ---------------------------------------------------------- the systems
\* push/pull: one Pusher, the Pullers, the file lock
Next ==
    \/ Pusher_send
    \/ wm_loop
    \/ wm_write
    \/ wm_commit
    \/ wm_count
    \/ \E i \in Pullers : Puller_recv(i)
    \/ \E i \in Pullers : FileLock_acquire(i)
    \/ \E i \in Pullers : rst_load(i)
    \/ \E i \in Pullers : rst_read(i)
    \/ \E i \in Pullers : rst_store(i)
    \/ \E i \in Pullers : FileLock_release(i)
    \/ \E i \in Pullers : poll_until_claim(i)

Spec == Init /\ [][Next]_vars

\* push/pull under fair scheduling: a thread that is inside a call and can
\* take its next step eventually takes it, and Puller 1 keeps calling recv
PusherStep == wm_loop \/ wm_write \/ wm_commit \/ wm_count

PullerStep(i) ==
    \/ FileLock_acquire(i) \/ rst_load(i) \/ rst_read(i) \/ rst_store(i)
    \/ FileLock_release(i) \/ poll_until_claim(i)

FairSpec ==
    /\ Spec
    /\ WF_vars(PusherStep)
    /\ \A i \in Pullers : WF_vars(PullerStep(i))
    /\ WF_vars(Puller_recv(1))

\* push/pull with a single consumer: one Pusher, Puller 1, the file lock
NextOnePuller ==
    \/ Pusher_send
    \/ wm_loop
    \/ wm_write
    \/ wm_commit
    \/ wm_count
    \/ \E i \in {1} : Puller_recv(i)
    \/ \E i \in {1} : FileLock_acquire(i)
    \/ \E i \in {1} : rst_load(i)
    \/ \E i \in {1} : rst_read(i)
    \/ \E i \in {1} : rst_store(i)
    \/ \E i \in {1} : FileLock_release(i)
    \/ \E i \in {1} : poll_until_claim(i)

SpecOnePuller == Init /\ [][NextOnePuller]_vars

\* push/pull of raw bytes: a Pusher using send_bytes, the Pullers using recv
NextBytes ==
    \/ Pusher_send_bytes
    \/ wm_loop
    \/ wm_write
    \/ wm_commit
    \/ wm_count
    \/ \E i \in Pullers : Puller_recv(i)
    \/ \E i \in Pullers : FileLock_acquire(i)
    \/ \E i \in Pullers : rst_load(i)
    \/ \E i \in Pullers : rst_read(i)
    \/ \E i \in Pullers : rst_store(i)
    \/ \E i \in Pullers : FileLock_release(i)
    \/ \E i \in Pullers : poll_until_claim(i)

SpecBytes == Init /\ [][NextBytes]_vars

\* pub/sub: one Publisher and Subscriber 1, a long publishing run
NextPubSub ==
    \/ Publisher_send
    \/ wm_write
    \/ wm_commit
    \/ wm_count
    \/ \E i \in {1} : Subscriber_init(i)
    \/ \E i \in {1} : Subscriber_recv(i)
    \/ \E i \in {1} : rms_load(i)
    \/ \E i \in {1} : rms_read(i)
    \/ \E i \in {1} : poll_until_recv(i)

SpecPubSub == Init /\ [][NextPubSub]_vars

\* Publisher.send in a publishing run of MaxMsgs messages
Publisher_send_few ==
    /\ calls < MaxMsgs
    /\ Publisher_send

\* pub/sub fan-out: one Publisher and all the Subscribers, a short
\* publishing run
NextFanOut ==
    \/ Publisher_send_few
    \/ wm_write
    \/ wm_commit
    \/ wm_count
    \/ \E i \in Subscribers : Subscriber_init(i)
    \/ \E i \in Subscribers : Subscriber_recv(i)
    \/ \E i \in Subscribers : rms_load(i)
    \/ \E i \in Subscribers : rms_read(i)
    \/ \E i \in Subscribers : poll_until_recv(i)

SpecFanOut == Init /\ [][NextFanOut]_vars

\* pub/sub with every kind of timeout: one Publisher, Subscriber 1 calling recv
\* with no, a positive or a zero timeout
NextRecv ==
    \/ Publisher_send_few
    \/ wm_write
    \/ wm_commit
    \/ wm_count
    \/ \E i \in {1} : Subscriber_init(i)
    \/ \E i \in {1} : Subscriber_recv(i)
    \/ \E i \in {1} : Subscriber_recv_now(i)
    \/ \E i \in {1} : rms_load(i)
    \/ \E i \in {1} : rms_read(i)
    \/ \E i \in {1} : poll_until_recv(i)

SpecRecv == Init /\ [][NextRecv]_vars

\* the deadline of a recv with a finite timeout passes
Deadline(i) == poll_until_recv(i) /\ sub'[i].pc = "idle"

\* the Subscriber's thread keeps running, and the clock reaches every deadline
FairRecv ==
    /\ SpecRecv
    /\ WF_vars(rms_load(1) \/ rms_read(1) \/ poll_until_recv(1))
    /\ SF_vars(Deadline(1))

\* the buffer functions called directly: one writer thread, one reader thread
NextBuffer ==
    \/ write_call
    \/ wm_loop
    \/ wm_write
    \/ wm_commit
    \/ wm_count
    \/ read_call
    \/ rd_load
    \/ rd_read
    \/ rd_store

SpecBuffer == Init /\ [][NextBuffer]_vars

\* ------------------------------------------- slot I/O in single loads and stores

\* Pusher.send_bytes(data) of a one-byte or a two-byte payload, blocking with no
\* timeout, in a run long enough for slots to be used again
Pusher_send_raw ==
    /\ calls < MaxWrites
    /\ \E data \in {<<calls + 1>>, <<10 + calls, 20 + calls>>} :
        write_message(BytesObj(data), data, TRUE, FALSE, FALSE)

\* a write that advances HEAD together with the length store, before the payload
ws_size_committing ==
    /\ prod.pc = "write"
    /\ LET head == hdr.HEAD
       IN /\ slots' = [slots EXCEPT ![head].size = Len(prod.payload)]
          /\ hdr' = [hdr EXCEPT !.HEAD = next_index(head)]
          /\ prod' = [prod EXCEPT !.pc = "data", !.head = head]
    /\ UNCHANGED <<pull, lock, sub, rdr, calls, sent, committed, taken, rejected, got, lastw, rrvars, sysvars>>

\* write_message line 159 and _write_slot line 57: reload HEAD, store the length
\* prefix of the slot it names
ws_size ==
    /\ prod.pc = "write"
    /\ LET head == hdr.HEAD
       IN /\ slots' = [slots EXCEPT ![head].size = Len(prod.payload)]
          /\ prod' = [prod EXCEPT !.pc = "data", !.head = head]
    /\ UNCHANGED <<hdr, pull, lock, sub, rdr, calls, sent, committed, taken, rejected, got, lastw, rrvars, sysvars>>

\* _write_slot lines 58-59: store the payload bytes behind the prefix
ws_data ==
    /\ prod.pc = "data"
    /\ slots' = [slots EXCEPT ![prod.head].data =
                    [i \in 1..MaxPayload |->
                        IF i <= Len(prod.payload) THEN prod.payload[i] ELSE @[i]]]
    /\ lastw' = [lastw EXCEPT ![prod.head] = prod.payload]
    /\ prod' = [prod EXCEPT !.pc = "commit"]
    /\ UNCHANGED <<hdr, pull, lock, sub, rdr, calls, sent, committed, taken, rejected, got, rrvars, sysvars>>

\* read_message_shared_tail line 249, _read_slot line 69: load the length prefix
rs_size(i) ==
    /\ pull[i].pc = "read"
    /\ pull' = [pull EXCEPT ![i].size = slots[pull[i].tail].size, ![i].pc = "bytes"]
    /\ UNCHANGED <<hdr, slots, prod, lock, sub, rdr, calls, sent, committed, taken, rejected, got, lastw, rrvars, sysvars>>

\* _read_slot lines 70-71: copy that many bytes out of the slot
rs_data(i) ==
    /\ pull[i].pc = "bytes"
    /\ pull' = [pull EXCEPT ![i].raw = SubSeq(slots[pull[i].tail].data, 1, pull[i].size),
                            ![i].size = 0, ![i].pc = "store"]
    /\ UNCHANGED <<hdr, slots, prod, lock, sub, rdr, calls, sent, committed, taken, rejected, got, lastw, rrvars, sysvars>>

\* Puller.recv_bytes: what _try_claim_bytes took is returned if poll_until accepts
\* it (bytes are never None or False); else None at the deadline, else sleep
poll_until_claim_bytes(i) ==
    /\ pull[i].pc = "result"
    /\ IF pull[i].hit
          THEN /\ got' = Append(got, BytesObj(pull[i].raw))
               /\ pull' = [pull EXCEPT ![i] = IdlePull]
          ELSE /\ \E expired \in {FALSE, pull[i].finite} :
                    pull' = [pull EXCEPT ![i] =
                                IF expired THEN IdlePull
                                ELSE [IdlePull EXCEPT !.pc = "acquire",
                                                      !.finite = pull[i].finite]]
               /\ UNCHANGED got
    /\ UNCHANGED <<hdr, slots, prod, lock, sub, rdr, calls, sent, committed, taken, rejected, lastw, rrvars, sysvars>>

\* push/pull of raw bytes with every slot access a step of its own
NextSlots ==
    \/ Pusher_send_raw
    \/ wm_loop
    \/ ws_size
    \/ ws_data
    \/ wm_commit
    \/ wm_count
    \/ \E i \in Pullers : Puller_recv(i)
    \/ \E i \in Pullers : FileLock_acquire(i)
    \/ \E i \in Pullers : rst_load(i)
    \/ \E i \in Pullers : rs_size(i)
    \/ \E i \in Pullers : rs_data(i)
    \/ \E i \in Pullers : rst_store(i)
    \/ \E i \in Pullers : FileLock_release(i)
    \/ \E i \in Pullers : poll_until_claim_bytes(i)

SpecSlots == Init /\ [][NextSlots]_vars

\* Publisher.send_bytes(payload) of a one-byte or a two-byte payload: always
\* write_message(payload, overwrite=True)
Publisher_send_bytes ==
    /\ calls < MaxWrites
    /\ \E data \in {<<calls + 1>>, <<10 + calls, 20 + calls>>} :
        write_message(BytesObj(data), data, FALSE, FALSE, TRUE)

\* read_message_spsc line 208, _read_slot line 69: load the length prefix of slot
\* local_tail
rms_size(i) ==
    /\ sub[i].pc = "read"
    /\ sub' = [sub EXCEPT ![i].size = slots[sub[i].tail].size, ![i].pc = "bytes"]
    /\ UNCHANGED <<hdr, slots, prod, pull, lock, rdr, calls, sent, committed, taken, rejected, got, lastw, rrvars, sysvars>>

\* _read_slot lines 70-71, read_message_spsc lines 210-217 and _try_recv_bytes
\* lines 273-274: copy that many bytes out of the slot, advance the private cursor
rms_data(i) ==
    /\ sub[i].pc = "bytes"
    /\ sub' = [sub EXCEPT ![i].raw = SubSeq(slots[sub[i].tail].data, 1, sub[i].size),
                          ![i].size = 0,
                          ![i].tail = next_index(sub[i].tail),
                          ![i].pc = "result"]
    /\ UNCHANGED <<hdr, slots, prod, pull, lock, rdr, calls, sent, committed, taken, rejected, got, lastw, rrvars, sysvars>>

\* Subscriber.recv_bytes: the bytes _try_recv_bytes read are returned by
\* poll_until; with nothing read, None at the deadline, else sleep and retry
poll_until_recv_bytes(i) ==
    /\ sub[i].pc = "result"
    /\ IF sub[i].hit
       THEN sub' = [sub EXCEPT ![i].got = Append(@, BytesObj(sub[i].raw)), ![i].pc = "idle",
                               ![i].raw = <<>>, ![i].hit = FALSE, ![i].finite = FALSE]
       ELSE \E expired \in {FALSE, sub[i].finite} :
              sub' = [sub EXCEPT ![i].pc = IF expired THEN "idle" ELSE "load",
                                 ![i].finite = IF expired THEN FALSE ELSE @,
                                 ![i].raw = <<>>, ![i].hit = FALSE]
    /\ UNCHANGED <<hdr, slots, prod, pull, lock, rdr, calls, sent, committed, taken, rejected, got, lastw, rrvars, sysvars>>

\* pub/sub of raw bytes with every slot access a step of its own
NextLap ==
    \/ Publisher_send_bytes
    \/ ws_size
    \/ ws_data
    \/ wm_commit
    \/ wm_count
    \/ \E i \in {1} : Subscriber_init(i)
    \/ \E i \in {1} : Subscriber_recv(i)
    \/ \E i \in {1} : rms_load(i)
    \/ \E i \in {1} : rms_size(i)
    \/ \E i \in {1} : rms_data(i)
    \/ \E i \in {1} : poll_until_recv_bytes(i)

SpecLap == Init /\ [][NextLap]_vars

\* --------------------------------------- a private cursor behind one producer

\* write_message(shm, payload, block=False, overwrite=...) of a one-byte payload,
\* by the producer of a channel whose consumer reads through a private cursor
write_call_now ==
    /\ calls < MaxPubs
    /\ \E overwrite \in BOOLEAN :
        write_message(BytesObj(<<calls + 1>>), <<calls + 1>>, FALSE, FALSE, overwrite)

\* NextCursor: the producer in either mode, the consumer's constructor and its
\* recv_bytes, slot reads and writes atomic
NextCursor ==
    \/ write_call_now
    \/ wm_loop
    \/ wm_write
    \/ wm_commit
    \/ wm_count
    \/ \E i \in {1} : Subscriber_init(i)
    \/ \E i \in {1} : Subscriber_recv(i)
    \/ \E i \in {1} : rms_load(i)
    \/ \E i \in {1} : rms_read(i)
    \/ \E i \in {1} : poll_until_recv_bytes(i)

SpecCursor == Init /\ [][NextCursor]_vars

\* ---------------------------------------------------------------- get_stats

\* get_stats line 271: load HEAD
get_stats_head ==
    /\ st.pc = "idle"
    /\ st' = [st EXCEPT !.pc = "tail", !.head = hdr.HEAD,
                        !.c = Len(committed), !.t = Len(taken)]
    /\ UNCHANGED <<chvars, rrvars, flk, lcvars, fu>>

\* get_stats line 272: load TAIL
get_stats_tail ==
    /\ st.pc = "tail"
    /\ st' = [st EXCEPT !.pc = "rest", !.tail = hdr.TAIL]
    /\ UNCHANGED <<chvars, rrvars, flk, lcvars, fu>>

\* the dict of get_stats with free_slots counting the sentinel slot as free
stats_dict_nosentinel(head, tail) ==
    LET num_slots == hdr.NUM_SLOTS
        used == (head - tail) % num_slots
    IN [head |-> head, tail |-> tail, num_slots |-> num_slots, slot_size |-> hdr.SLOT_SIZE,
        msg_count |-> hdr.MSG_COUNT, drop_count |-> hdr.DROP_COUNT, used_slots |-> used,
        free_slots |-> num_slots - used]

\* get_stats lines 273-285: the dict built from the loaded head and tail and the
\* remaining header cells
stats_dict(head, tail) ==
    LET num_slots == hdr.NUM_SLOTS
        used == (head - tail) % num_slots
    IN [head |-> head, tail |-> tail, num_slots |-> num_slots, slot_size |-> hdr.SLOT_SIZE,
        msg_count |-> hdr.MSG_COUNT, drop_count |-> hdr.DROP_COUNT, used_slots |-> used,
        free_slots |-> num_slots - used - 1]

\* get_stats lines 273-285: load the other cells, compute, return the dict
get_stats_rest ==
    /\ st.pc = "rest"
    /\ st' = [st EXCEPT !.pc = "idle", !.head = 0, !.tail = 0, !.c = 0, !.t = 0,
                        !.out = stats_dict(st.head, st.tail)]
    /\ UNCHANGED <<chvars, rrvars, flk, lcvars, fu>>

\* Pusher.send(k, block=False) of the integers 1, 2, ...
Pusher_send_now ==
    /\ calls < MaxMsgs
    /\ write_message(IntObj(calls + 1), serialize(IntObj(calls + 1)), FALSE, FALSE, FALSE)

\* push/pull with a caller of stats: one Pusher, Puller 1, get_stats
NextStats ==
    \/ Pusher_send_now
    \/ wm_loop
    \/ wm_write
    \/ wm_commit
    \/ wm_count
    \/ \E i \in {1} : Puller_recv(i)
    \/ \E i \in {1} : FileLock_acquire(i)
    \/ \E i \in {1} : rst_load(i)
    \/ \E i \in {1} : rst_read(i)
    \/ \E i \in {1} : rst_store(i)
    \/ \E i \in {1} : FileLock_release(i)
    \/ \E i \in {1} : poll_until_claim(i)
    \/ get_stats_head
    \/ get_stats_tail
    \/ get_stats_rest

SpecStats == Init /\ [][NextStats]_vars

\* ------------------------------------------------ one channel, one pattern

\* no endpoint of the pattern has been used on the channel yet
PipelineIdle == calls = 0 /\ \A i \in Pullers : pull[i] = IdlePull

PubSubIdle == \A i \in Subscribers : sub[i].pc = "new"

ReqRepIdle == rr_ep = [e \in {"requester", "replier"} |-> IdleEp] /\ rr_log.reqs = <<>>

\* Pusher.send and Puller.recv on a channel that serves push/pull
Pusher_send_alone == PubSubIdle /\ ReqRepIdle /\ Pusher_send_now

Puller_recv_alone(i) == PubSubIdle /\ ReqRepIdle /\ Puller_recv(i)

\* Subscriber.__init__ and Publisher.send(k) of integers on a channel that serves
\* pub/sub
Subscriber_init_alone(i) == PipelineIdle /\ ReqRepIdle /\ Subscriber_init(i)

Publisher_send_alone ==
    /\ ~PubSubIdle
    /\ calls < MaxMsgs
    /\ write_message(IntObj(calls + 1), serialize(IntObj(calls + 1)), FALSE, FALSE, TRUE)

\* stats() of an endpoint of the push/pull or the pub/sub channel
stats_alone == ReqRepIdle /\ get_stats_head

\* the calls of Requester and Replier on the two channels of a service
Requester_send_alone == PipelineIdle /\ PubSubIdle /\ st = NoStats /\ Requester_send

Requester_request_alone == PipelineIdle /\ PubSubIdle /\ st = NoStats /\ Requester_request

Requester_recv_alone == PipelineIdle /\ PubSubIdle /\ st = NoStats /\ Requester_recv

Replier_recv_alone == PipelineIdle /\ PubSubIdle /\ st = NoStats /\ Replier_recv

\* every endpoint operation of the three patterns; a channel serves the pattern
\* whose endpoint used it first
NextCells ==
    \/ Pusher_send_alone
    \/ wm_loop
    \/ wm_write
    \/ wm_commit
    \/ wm_count
    \/ \E i \in {1} : Puller_recv_alone(i)
    \/ \E i \in {1} : FileLock_acquire(i)
    \/ \E i \in {1} : rst_load(i)
    \/ \E i \in {1} : rst_read(i)
    \/ \E i \in {1} : rst_store(i)
    \/ \E i \in {1} : FileLock_release(i)
    \/ \E i \in {1} : poll_until_claim(i)
    \/ Publisher_send_alone
    \/ \E i \in {1} : Subscriber_init_alone(i)
    \/ \E i \in {1} : Subscriber_recv(i)
    \/ \E i \in {1} : rms_load(i)
    \/ \E i \in {1} : rms_read(i)
    \/ \E i \in {1} : poll_until_recv(i)
    \/ stats_alone
    \/ get_stats_tail
    \/ get_stats_rest
    \/ Requester_send_alone
    \/ Requester_request_alone
    \/ Requester_recv_alone
    \/ Replier_recv_alone
    \/ Replier_send
    \/ \E e \in {"requester", "replier"} : rr_wm_loop(e)
    \/ \E e \in {"requester", "replier"} : rr_wm_write(e)
    \/ \E e \in {"requester", "replier"} : rr_wm_commit(e)
    \/ \E e \in {"requester", "replier"} : rr_wm_count(e)
    \/ \E e \in {"requester", "replier"} : rr_rms_load(e)
    \/ \E e \in {"requester", "replier"} : rr_rms_read(e)
    \/ \E e \in {"requester", "replier"} : rr_poll_until(e)

SpecCells == Init /\ [][NextCells]_vars

\* ------------------------------------------------ FileLock objects used directly

\* the last two outcomes of FileLock k's calls, newest in ret
Outcome(k, r) == [flk[k] EXCEPT !.ret = r, !.prev = flk[k].ret]

\* release that unlocks the file whoever holds it
release_any(k) ==
    /\ flk[k].pc = "idle"
    /\ lock' = 0
    /\ flk' = [flk EXCEPT ![k] = [Outcome(k, "released") EXCEPT !.fd = FALSE]]
    /\ UNCHANGED <<hdr, slots, prod, pull, sub, rdr, calls, sent, committed, taken, rejected, got,
                   lastw, rrvars, lcvars, st, fu>>

\* FileLock.release: nothing without a descriptor; else unlock it, close it, forget it
release(k) ==
    /\ flk[k].pc = "idle"
    /\ IF flk[k].fd
          THEN /\ lock' = IF lock = k THEN 0 ELSE lock
               /\ flk' = [flk EXCEPT ![k] = [Outcome(k, "released") EXCEPT !.fd = FALSE]]
          ELSE /\ lock' = lock
               /\ flk' = [flk EXCEPT ![k] = Outcome(k, "released")]
    /\ UNCHANGED <<hdr, slots, prod, pull, sub, rdr, calls, sent, committed, taken, rejected, got,
                   lastw, rrvars, lcvars, st, fu>>

\* FileLock.acquire up to the loop: the deadline, and a descriptor opened anew, which
\* replaces the one this object may still hold the lock through
acquire(k) ==
    /\ flk[k].pc = "idle"
    /\ \E finite \in BOOLEAN :
          flk' = [flk EXCEPT ![k] = [flk[k] EXCEPT !.pc = "loop", !.fd = TRUE, !.finite = finite]]
    /\ lock' = IF lock = k THEN -k ELSE lock
    /\ UNCHANGED <<hdr, slots, prod, pull, sub, rdr, calls, sent, committed, taken, rejected, got,
                   lastw, rrvars, lcvars, st, fu>>

\* one pass of the loop: the non-blocking flock succeeds on a free file; otherwise past
\* the deadline the descriptor is closed and SHMTimeoutError raised, else sleep
acquire_loop(k) ==
    /\ flk[k].pc = "loop"
    /\ IF lock = 0
          THEN /\ lock' = k
               /\ flk' = [flk EXCEPT ![k] = [Outcome(k, "acquired") EXCEPT !.pc = "idle"]]
          ELSE /\ lock' = lock
               /\ \E expired \in {FALSE, flk[k].finite} :
                     flk' = IF expired
                               THEN [flk EXCEPT ![k] = [Outcome(k, "SHMTimeoutError")
                                                           EXCEPT !.pc = "idle", !.fd = FALSE]]
                               ELSE flk
    /\ UNCHANGED <<hdr, slots, prod, pull, sub, rdr, calls, sent, committed, taken, rejected, got,
                   lastw, rrvars, lcvars, st, fu>>

NextLock ==
    \E k \in FileLocks :
        \/ acquire(k)
        \/ acquire_loop(k)
        \/ release(k)

SpecLock == Init /\ [][NextLock]_vars

\* ------------------------------------------------ segment lifecycle (core.py)

\* the memory of a segment the OS has just allocated
ZeroHeader == [MAGIC |-> 0, VERSION |-> 0, HEAD |-> 0, TAIL |-> 0, MSG_COUNT |-> 0,
               DROP_COUNT |-> 0, NUM_SLOTS |-> 0, SLOT_SIZE |-> 0]

\* the name endpoint e's constructor is working on
CurName(e) == chan[lc[e].k]

\* the constructor is done with one name: on to the next, or the endpoint is open
NextName(e, first) ==
    IF lc[e].k < Len(chan)
       THEN [lc[e] EXCEPT !.k = lc[e].k + 1, !.pc = first, !.polls = 0]
       ELSE [lc[e] EXCEPT !.pc = "open", !.polls = 0]

\* Publisher / Pusher / Replier __init__: enter create_segment for the first
\* name.  An owner is started only when every earlier owner of the channel has
\* been closed, has crashed, or failed to construct
Owner_init(e) ==
    /\ lc[e].pc = "new"
    /\ \A o \in Owners : o < e => lc[o].pc \in {"closed", "crashed", "failed"}
    /\ lc' = [lc EXCEPT ![e].pc = "stale"]
    /\ UNCHANGED <<shm_names, shm_segs, chan, chvars, rrvars, flk, st, fu>>

\* create_segment that leaves a segment already there alone
create_segment_keep(e) ==
    /\ lc[e].pc = "stale"
    /\ lc' = [lc EXCEPT ![e].pc = "create"]
    /\ UNCHANGED <<shm_names, shm_segs, chan, chvars, rrvars, flk, st, fu>>

\* create_segment lines 152-161: a segment already under the name is unlinked
create_segment_stale(e) ==
    /\ lc[e].pc = "stale"
    /\ shm_names' = [shm_names EXCEPT ![CurName(e)] = 0]
    /\ lc' = [lc EXCEPT ![e].pc = "create"]
    /\ UNCHANGED <<shm_segs, chan, chvars, rrvars, flk, st, fu>>

\* create_segment lines 163-169: exclusive creation of a zero-filled segment, which
\* fails with SHMConnectionError when the name is taken
create_segment_new(e) ==
    /\ lc[e].pc = "create"
    /\ IF shm_names[CurName(e)] # 0
          THEN /\ lc' = [lc EXCEPT ![e].pc = "failed", ![e].err = "create"]
               /\ UNCHANGED <<shm_names, shm_segs>>
          ELSE /\ shm_segs' = Append(shm_segs, ZeroHeader)
               /\ shm_names' = [shm_names EXCEPT ![CurName(e)] = Len(shm_segs) + 1]
               /\ lc' = [lc EXCEPT ![e].pc = "magic",
                                   ![e].shm[CurName(e)] = Len(shm_segs) + 1]
    /\ UNCHANGED <<chan, chvars, rrvars, flk, st, fu>>

\* _init_header line 87
init_header_magic(e) ==
    /\ lc[e].pc = "magic"
    /\ shm_segs' = [shm_segs EXCEPT ![lc[e].shm[CurName(e)]].MAGIC = MAGIC]
    /\ lc' = [lc EXCEPT ![e].pc = "version"]
    /\ UNCHANGED <<shm_names, chan, chvars, rrvars, flk, st, fu>>

\* _init_header line 88
init_header_version(e) ==
    /\ lc[e].pc = "version"
    /\ shm_segs' = [shm_segs EXCEPT ![lc[e].shm[CurName(e)]].VERSION = VERSION]
    /\ lc' = [lc EXCEPT ![e].pc = "rest"]
    /\ UNCHANGED <<shm_names, chan, chvars, rrvars, flk, st, fu>>

\* _init_header lines 89-94 and the return of create_segment
init_header_rest(e) ==
    /\ lc[e].pc = "rest"
    /\ shm_segs' = [shm_segs EXCEPT ![lc[e].shm[CurName(e)]] =
                       [@ EXCEPT !.HEAD = 0, !.TAIL = 0, !.MSG_COUNT = 0, !.DROP_COUNT = 0,
                                 !.NUM_SLOTS = NumSlots, !.SLOT_SIZE = SlotSize]]
    /\ lc' = [lc EXCEPT ![e] = NextName(e, "stale")]
    /\ UNCHANGED <<shm_names, chan, chvars, rrvars, flk, st, fu>>

\* a committed non-overwrite write_message by the open owner into the ring it
\* writes (the only ring, or the reply ring): HEAD and MSG_COUNT advance
Owner_write(e) ==
    /\ lc[e].pc = "open"
    /\ LET s == lc[e].shm[chan[Len(chan)]]
           h == shm_segs[s]
       IN /\ (h.HEAD + 1) % h.NUM_SLOTS # h.TAIL
          /\ shm_segs' = [shm_segs EXCEPT ![s].HEAD = (h.HEAD + 1) % h.NUM_SLOTS,
                                          ![s].MSG_COUNT = h.MSG_COUNT + 1]
    /\ UNCHANGED <<shm_names, lc, chan, chvars, rrvars, flk, st, fu>>

\* the owner's process dies: no close, no atexit hook
Owner_crash(e) ==
    /\ lc[e].pc = "open"
    /\ lc' = [lc EXCEPT ![e].pc = "crashed"]
    /\ UNCHANGED <<shm_names, shm_segs, chan, chvars, rrvars, flk, st, fu>>

\* Subscriber / Puller / Requester __init__: enter attach_segment for the first name
Attacher_init(a) ==
    /\ lc[a].pc = "new"
    /\ lc' = [lc EXCEPT ![a].pc = "poll"]
    /\ UNCHANGED <<shm_names, shm_segs, chan, chvars, rrvars, flk, st, fu>>

\* attach_segment that sleeps and retries on a header that does not validate
attach_segment_retrying(a) ==
    /\ lc[a].pc = "poll"
    /\ \E expired \in BOOLEAN :
          LET s == shm_names[CurName(a)]
          IN IF expired
                THEN lc' = [lc EXCEPT ![a].pc = "failed", ![a].err = "timeout"]
                ELSE IF s = 0 \/ shm_segs[s].MAGIC # MAGIC \/ shm_segs[s].VERSION # VERSION
                THEN /\ lc[a].polls < MaxPolls
                     /\ lc' = [lc EXCEPT ![a].polls = lc[a].polls + 1]
                ELSE lc' = [lc EXCEPT ![a] = [NextName(a, "poll") EXCEPT !.shm[CurName(a)] = s]]
    /\ UNCHANGED <<shm_names, shm_segs, chan, chvars, rrvars, flk, st, fu>>

\* attach_segment, one pass of the loop at lines 209-223 or the raise at 225: past
\* the deadline SHMConnectionError (did not appear); no segment under the name:
\* sleep; a segment whose MAGIC or VERSION cell is wrong: SHMConnectionError
\* (invalid header) at once; else the segment is returned
attach_segment(a) ==
    /\ lc[a].pc = "poll"
    /\ \E expired \in BOOLEAN :
          LET s == shm_names[CurName(a)]
          IN IF expired
                THEN lc' = [lc EXCEPT ![a].pc = "failed", ![a].err = "timeout"]
                ELSE IF s = 0
                THEN /\ lc[a].polls < MaxPolls
                     /\ lc' = [lc EXCEPT ![a].polls = lc[a].polls + 1]
                ELSE IF shm_segs[s].MAGIC # MAGIC \/ shm_segs[s].VERSION # VERSION
                THEN lc' = [lc EXCEPT ![a].pc = "failed", ![a].err = "invalid"]
                ELSE lc' = [lc EXCEPT ![a] = [NextName(a, "poll") EXCEPT !.shm[CurName(a)] = s]]
    /\ UNCHANGED <<shm_names, shm_segs, chan, chvars, rrvars, flk, st, fu>>

\* close that unlinks the channel's names on every call of an owner
close_unguarded(e) ==
    /\ lc[e].pc \in {"open", "closed"}
    /\ lc[e].closes < MaxCloses
    /\ shm_names' = IF e \in Owners
                       THEN [n \in Names |-> IF \E k \in 1..Len(chan) : chan[k] = n
                                                THEN 0 ELSE shm_names[n]]
                       ELSE shm_names
    /\ lc' = [lc EXCEPT ![e] = [lc[e] EXCEPT !.pc = "closed", !.shm = [n \in Names |-> 0],
                                             !.closes = lc[e].closes + 1]]
    /\ UNCHANGED <<shm_segs, chan, chvars, rrvars, flk, st, fu>>

\* close with destroy=True whoever the endpoint is
close_destroying(e) ==
    /\ lc[e].pc \in {"open", "closed"}
    /\ lc[e].closes < MaxCloses
    /\ shm_names' = [n \in Names |-> IF lc[e].shm[n] # 0 THEN 0 ELSE shm_names[n]]
    /\ lc' = [lc EXCEPT ![e] = [lc[e] EXCEPT !.pc = "closed", !.shm = [n \in Names |-> 0],
                                             !.closes = lc[e].closes + 1]]
    /\ UNCHANGED <<shm_segs, chan, chvars, rrvars, flk, st, fu>>

\* close of any endpoint: for each segment it still holds, close_segment (detach;
\* for an owner also unlink the name) and forget it; nothing when it holds none
close(e) ==
    /\ lc[e].pc \in {"open", "closed"}
    /\ lc[e].closes < MaxCloses
    /\ shm_names' = IF e \in Owners
                       THEN [n \in Names |-> IF lc[e].shm[n] # 0 THEN 0 ELSE shm_names[n]]
                       ELSE shm_names
    /\ lc' = [lc EXCEPT ![e] = [lc[e] EXCEPT !.pc = "closed", !.shm = [n \in Names |-> 0],
                                             !.closes = lc[e].closes + 1]]
    /\ UNCHANGED <<shm_segs, chan, chvars, rrvars, flk, st, fu>>

NextLife ==
    \/ \E e \in Owners : Owner_init(e)
    \/ \E e \in Owners : create_segment_stale(e)
    \/ \E e \in Owners : create_segment_new(e)
    \/ \E e \in Owners : init_header_magic(e)
    \/ \E e \in Owners : init_header_version(e)
    \/ \E e \in Owners : init_header_rest(e)
    \/ \E e \in Owners : Owner_write(e)
    \/ \E e \in Owners : Owner_crash(e)
    \/ \E a \in Attachers : Attacher_init(a)
    \/ \E a \in Attachers : attach_segment(a)
    \/ \E e \in Owners \cup Attachers : close(e)

SpecLife == InitLife /\ [][NextLife]_vars

\* ------------------------------------------ a second owner of an open channel

\* the constructor of an owning endpoint (Publisher, Pusher, Replier) called for
\* a channel while an earlier owner may still have it open
Owner_init_late(e) ==
    /\ lc[e].pc = "new"
    /\ \A o \in Owners : o < e => lc[o].pc # "new"
    /\ lc' = [lc EXCEPT ![e].pc = "stale"]
    /\ UNCHANGED <<shm_names, shm_segs, chan, chvars, rrvars, flk, st, fu>>

\* owners that create the same channel one after the other without waiting for
\* each other's close, and an attacher
NextTakeover ==
    \/ \E e \in Owners : Owner_init_late(e)
    \/ \E e \in Owners : create_segment_stale(e)
    \/ \E e \in Owners : create_segment_new(e)
    \/ \E e \in Owners : init_header_magic(e)
    \/ \E e \in Owners : init_header_version(e)
    \/ \E e \in Owners : init_header_rest(e)
    \/ \E a \in {3} : Attacher_init(a)
    \/ \E a \in {3} : attach_segment(a)
    \/ \E e \in Owners \cup {3} : close(e)

SpecTakeover == InitLife /\ [][NextTakeover]_vars

\* ---------------------------------------------------------------- force_unlink

\* what a force_unlink call leaves when it returns r
Unlinked(r) == [pc |-> "idle", name |-> 0, ret |-> r, prev |-> fu.ret, last |-> fu.name,
                segs |-> Len(shm_segs)]

\* force_unlink(name) line 106: open the segment; FileNotFoundError returns False
force_unlink_open ==
    /\ fu.pc = "idle"
    /\ \E n \in Names :
          fu' = IF shm_names[n] = 0
                   THEN [Unlinked("False") EXCEPT !.last = n]
                   ELSE [fu EXCEPT !.pc = "unlink", !.name = n]
    /\ UNCHANGED <<chvars, rrvars, flk, lcvars, st>>

\* force_unlink that reports True whether or not it removed anything
force_unlink_unlink_always ==
    /\ fu.pc = "unlink"
    /\ shm_names' = [shm_names EXCEPT ![fu.name] = 0]
    /\ fu' = Unlinked("True")
    /\ UNCHANGED <<chvars, rrvars, flk, shm_segs, lc, chan, st>>

\* force_unlink lines 107-112: close, unlink the name, return True; the name being
\* gone by now is a FileNotFoundError too and returns False
force_unlink_unlink ==
    /\ fu.pc = "unlink"
    /\ shm_names' = [shm_names EXCEPT ![fu.name] = 0]
    /\ fu' = Unlinked(IF shm_names[fu.name] # 0 THEN "True" ELSE "False")
    /\ UNCHANGED <<chvars, rrvars, flk, shm_segs, lc, chan, st>>

\* owners that come and go, and a caller of force_unlink
NextUnlink ==
    \/ \E e \in Owners : Owner_init(e)
    \/ \E e \in Owners : create_segment_stale(e)
    \/ \E e \in Owners : create_segment_new(e)
    \/ \E e \in Owners : init_header_magic(e)
    \/ \E e \in Owners : init_header_version(e)
    \/ \E e \in Owners : init_header_rest(e)
    \/ \E e \in Owners : Owner_crash(e)
    \/ \E e \in Owners : close(e)
    \/ force_unlink_open
    \/ force_unlink_unlink

SpecUnlink == InitLife /\ [][NextUnlink]_vars

\* =================================================================== claims

\* how often x occurs in the sequence q
Count(q, x) == Cardinality({a \in 1..Len(q) : q[a] = x})

\* the sequences p and q hold the same elements the same number of times
SameBag(p, q) ==
    /\ Len(p) = Len(q)
    /\ \A a \in 1..Len(p) : Count(p, p[a]) = Count(q, p[a])

\* no Puller holds a taken message that its recv has not returned yet
PullersQuiet == \A i \in Pullers : ~pull[i].hit

\* the ring is drained: nothing committed is unclaimed, no send and no
\* receive is half-way
Drained ==
    /\ hdr.HEAD = hdr.TAIL
    /\ prod.pc = "idle"
    /\ PullersQuiet

\* C1: push/pull exactly-once. No message is returned by two receive calls,
\* and once the ring is drained the values the Pullers' recv calls returned
\* are, as a multiset, the messages whose send returned True.
C1_ExactlyOnce ==
    /\ \A a, b \in 1..Len(got) : a # b => got[a] # got[b]
    /\ Drained => SameBag(got, sent)

\* C2: pub/sub ordering. What a Subscriber has received is a strictly
\* increasing subsequence of the messages published after it attached.
C2_InOrder ==
    \A i \in Subscribers :
        /\ \A a \in 1..Len(sub[i].got) : sub[i].got[a].v > sub[i].base
        /\ \A a, b \in 1..Len(sub[i].got) : a < b => sub[i].got[a].v < sub[i].got[b].v

\* the number of committed messages no TAIL store has claimed yet
Occupancy == Len(committed) - Len(taken)

\* C3: no silent loss in push/pull. Under fair scheduling, with a Puller
\* that keeps calling recv, the n-th message whose send returned True is
\* eventually returned by a recv, for every n.
C3_NoSilentLoss ==
    \A n \in 1..MaxMsgs : (Len(sent) >= n) ~> (Len(got) >= n)

\* C4: sentinel-slot capacity. A pass of the non-overwrite loop rejects the
\* write or makes it wait exactly when (HEAD + 1) mod NUM_SLOTS = TAIL, which
\* is exactly when NUM_SLOTS - 1 committed messages are unclaimed; so from an
\* empty ring with no consumer activity exactly NUM_SLOTS - 1 writes succeed.
C4_Capacity ==
    [][ /\ (prod.pc = "loop" /\ prod' # prod) =>
              /\ (prod'.pc # "write") <=> ((hdr.HEAD + 1) % NumSlots = hdr.TAIL)
              /\ (prod'.pc # "write") <=> (Occupancy = NumSlots - 1)
        /\ (Len(taken') = 0) =>
              /\ Len(committed') <= NumSlots - 1
              /\ (rejected' > 0 \/ prod'.waited \/ prod'.ret = "SHMBufferFullError")
                    => Len(committed') = NumSlots - 1
      ]_vars

\* C4 witness: no consumer has acted, NUM_SLOTS - 1 writes were committed and
\* the next non-blocking write was rejected
C4_Witness ==
    /\ Len(taken) = 0
    /\ Len(sent) = NumSlots - 1
    /\ prod.ret = "False"
    /\ hdr.DROP_COUNT = 1

\* C5: ring occupancy in push/pull. HEAD and TAIL stay in [0, NUM_SLOTS), the
\* number of committed-but-unclaimed messages is (HEAD - TAIL) mod NUM_SLOTS
\* and lies in 0..NUM_SLOTS - 1, and HEAD = TAIL exactly when it is 0.
C5_Occupancy ==
    /\ hdr.HEAD \in 0..(NumSlots - 1)
    /\ hdr.TAIL \in 0..(NumSlots - 1)
    /\ Occupancy = (hdr.HEAD - hdr.TAIL) % NumSlots
    /\ Occupancy \in 0..(NumSlots - 1)
    /\ (hdr.HEAD = hdr.TAIL) <=> (Occupancy = 0)

\* C5 witness: a full ring whose HEAD has wrapped behind TAIL
C5_Witness ==
    /\ hdr.HEAD < hdr.TAIL
    /\ Occupancy = NumSlots - 1
    /\ Len(taken) > 0

\* C6: raw-bytes round trip. The payload a read copies out of a slot is
\* exactly the payload last written into that slot, whatever its length and
\* whatever the slot held before.
C6_RoundTrip ==
    (rdr.pc = "store" \/ rdr.ret = "payload") => rdr.raw = rdr.expect

\* C6 witness: a read returned a payload shorter than the slot's payload
\* area while bytes of an earlier, longer payload are still in the slot
C6_Witness ==
    /\ rdr.ret = "payload"
    /\ Len(rdr.raw) < MaxPayload
    /\ slots[rdr.tail].size = Len(rdr.raw)
    /\ slots[rdr.tail].data[MaxPayload] # 0
    /\ lastw[rdr.tail] = rdr.raw

\* C7: oversized payload. A write_message call whose payload is longer than
\* SLOT_SIZE - 4 raises ValueError at once, in either mode and whatever the
\* ring holds, and changes no header cell and no slot; no slot ever holds a
\* length above SLOT_SIZE - 4.
C7_Oversized ==
    [][ /\ (calls' = calls + 1 /\ Len(prod'.payload) > SlotSize - SLOT_PREFIX_SIZE) =>
              /\ prod'.ret = "ValueError"
              /\ prod'.pc = "idle"
              /\ hdr' = hdr
              /\ slots' = slots
        /\ \A s \in 0..(NumSlots - 1) : slots'[s].size <= SlotSize - SLOT_PREFIX_SIZE
      ]_vars

\* C7 witness: an oversized non-overwrite write was refused on a full ring
C7_Witness ==
    /\ prod.ret = "ValueError"
    /\ Len(prod.payload) = MaxPayload + 1
    /\ ~prod.overwrite
    /\ (hdr.HEAD + 1) % NumSlots = hdr.TAIL

C9_BlockTimeout ==
    [][ /\ (prod.pc = "loop" /\ prod.block /\ prod.deadline /\ prod' # prod
              /\ (hdr.HEAD + 1) % NumSlots = hdr.TAIL) =>
              /\ \/ prod' = [prod EXCEPT !.waited = TRUE]
                 \/ prod'.pc = "idle" /\ prod'.ret = "SHMBufferFullError"
              /\ hdr' = hdr
              /\ slots' = slots
        /\ (prod'.ret = "SHMBufferFullError" /\ prod.ret # "SHMBufferFullError") =>
              /\ prod.pc = "loop" /\ prod.block /\ prod.deadline
              /\ (hdr.HEAD + 1) % NumSlots = hdr.TAIL
              /\ hdr' = hdr
              /\ slots' = slots
      ]_vars

\* C9 witness: a blocking write waited on a full ring and then timed out
C9_Witness ==
    /\ prod.ret = "SHMBufferFullError"
    /\ prod.waited
    /\ (hdr.HEAD + 1) % NumSlots = hdr.TAIL
    /\ hdr.DROP_COUNT = 0

\* a Pusher.send(block=True, timeout=None) that is inside the wait loop
BlockedForever == prod.pc = "loop" /\ prod.block /\ ~prod.deadline

\* C10: blocking send progress. A send with block=True and no timeout never
\* returns False, never raises and never drops; it stays in the loop while
\* the ring is full, and once the ring is not full it returns True.
C10_BlockingSend ==
    /\ [][ (BlockedForever /\ prod' # prod) =>
              /\ hdr'.DROP_COUNT = hdr.DROP_COUNT
              /\ prod'.pc \in {"loop", "write"}
              /\ ((hdr.HEAD + 1) % NumSlots = hdr.TAIL) => prod'.pc = "loop"
         ]_vars
    /\ (BlockedForever /\ (hdr.HEAD + 1) % NumSlots # hdr.TAIL)
          ~> (prod.pc = "idle" /\ prod.ret = "True")

\* C10 witness: a send without timeout that waited on a full ring has
\* committed its message and is about to return True
C10_Witness ==
    /\ prod.pc = "count"
    /\ prod.waited
    /\ prod.block
    /\ ~prod.deadline

\* C11: message counting. MSG_COUNT always equals the number of write calls
\* that returned True; it changes only in the step in which a write returns
\* True, and then by exactly 1, so rejected, timed-out and oversized writes
\* and all reads leave it alone and it never decreases; between calls it
\* equals the number of committed writes.
C11_MsgCount ==
    [][ /\ hdr'.MSG_COUNT = Len(sent')
        /\ hdr'.MSG_COUNT >= hdr.MSG_COUNT
        /\ (hdr'.MSG_COUNT # hdr.MSG_COUNT) =>
              /\ hdr'.MSG_COUNT = hdr.MSG_COUNT + 1
              /\ prod.pc = "count"
              /\ prod'.ret = "True"
        /\ (prod'.ret = "True" /\ prod.pc # "idle") =>
              hdr'.MSG_COUNT = hdr.MSG_COUNT + 1
        /\ (prod'.pc = "idle") => hdr'.MSG_COUNT = Len(committed')
      ]_vars

\* C11 witness: of four writes three returned True and one was rejected,
\* and a read has claimed a message
C11_Witness ==
    /\ hdr.MSG_COUNT = 3
    /\ rejected = 1
    /\ calls = 4
    /\ Len(taken) >= 1
    /\ prod.ret = "True"

\* C12: the Publisher never blocks. Whatever HEAD and TAIL hold and whatever
\* block and timeout are, a Publisher.send goes straight to the slot write,
\* commits its message by advancing HEAD and returns True: it never enters
\* the wait loop, never returns False, never raises, and DROP_COUNT and TAIL
\* never change.
C12_PublisherNeverBlocks ==
    [][ /\ hdr'.DROP_COUNT = hdr.DROP_COUNT
        /\ hdr'.TAIL = hdr.TAIL
        /\ ~prod'.waited
        /\ prod'.ret \in {"none", "True"}
        /\ (calls' = calls + 1) => prod'.pc = "write"
        /\ (prod.pc = "write" /\ prod' # prod) => prod'.pc = "commit"
        /\ (prod.pc = "commit" /\ prod' # prod) =>
              /\ prod'.pc = "count"
              /\ hdr'.HEAD = (hdr.HEAD + 1) % NumSlots
              /\ committed' = Append(committed, prod.obj)
        /\ (prod.pc = "count" /\ prod' # prod) =>
              /\ prod'.pc = "idle"
              /\ prod'.ret = "True"
      ]_vars

\* C12 witness: the send that found (HEAD + 1) mod NUM_SLOTS = TAIL, the
\* position in which a non-overwrite write is refused, has returned True
C12_Witness ==
    /\ Len(sent) = NumSlots
    /\ prod.ret = "True"
    /\ hdr.HEAD = hdr.TAIL
    /\ hdr.DROP_COUNT = 0

\* the last n elements of the sequence q
LastN(q, n) == SubSeq(q, Len(q) - n + 1, Len(q))

\* Subscriber i attached to the fresh ring (cursor 0), the Publisher then
\* sent exactly 2 * NUM_SLOTS accepted values and nothing since, and the
\* Subscriber began its first recv only after the last of them returned
AfterBurst(i) ==
    /\ sub[i].pc # "new"
    /\ sub[i].base = 0
    /\ calls = 2 * NumSlots
    /\ Len(sent) = 2 * NumSlots
    /\ \A k \in 1..Len(sent) : sent[k].t = "int"
    /\ sub[i].start = 2 * NumSlots

\* C13: overwrite burst. A Subscriber attached at HEAD = 0 that reads
\* nothing while 2 * NUM_SLOTS messages are published and then reads until
\* the ring looks empty to it has received exactly the last NUM_SLOTS - 1
\* messages of the burst, in order.
C13_OverwriteBurst ==
    \A i \in Subscribers :
        (AfterBurst(i) /\ sub[i].pc = "idle" /\ ring_empty(sub[i].tail, hdr.HEAD))
            => sub[i].got = LastN(sent, NumSlots - 1)

\* the number of messages committed since Subscriber i attached
PublishedSince(i) == Len(committed) - sub[i].base

\* C14: a late Subscriber skips the backlog. Every message a Subscriber
\* receives was published after it attached, and as long as fewer than
\* NUM_SLOTS messages have been published since the attach, the first message
\* it received is the first one published after the attach.
C14_SkipsBacklog ==
    \A i \in Subscribers :
        (sub[i].pc # "new") =>
            /\ \A a \in 1..Len(sub[i].got) : sub[i].got[a].v > sub[i].base
            /\ (Len(sub[i].got) >= 1 /\ PublishedSince(i) < NumSlots)
                  => sub[i].got[1] = committed[sub[i].base + 1]

\* Subscriber i has caught up: it is between calls and its cursor is at HEAD
CaughtUp(i) == sub[i].pc = "idle" /\ ring_empty(sub[i].tail, hdr.HEAD)

\* C15: private-cursor reads have no shared effect. A step of a Subscriber
\* stores to no header cell and no slot and leaves every other Subscriber as
\* it was, TAIL stays 0, and every Subscriber that has caught up without
\* having been lapped has received every message published since its attach,
\* whatever the other Subscribers did.
C15_PrivateCursor ==
    /\ [][ \A i \in Subscribers :
              (sub'[i] # sub[i]) =>
                  /\ hdr' = hdr
                  /\ slots' = slots
                  /\ \A j \in Subscribers \ {i} : sub'[j] = sub[j]
         ]_vars
    /\ [](hdr.TAIL = 0)
    /\ [](\A i \in Subscribers :
             (CaughtUp(i) /\ PublishedSince(i) < NumSlots)
                 => sub[i].got = SubSeq(committed, sub[i].base + 1, Len(committed)))

\* every request and every reply handed to send so far is an integer
IntsOnly ==
    /\ \A k \in 1..Len(rr_log.reqs) : rr_log.reqs[k].t = "int"
    /\ \A k \in 1..Len(rr_log.reps) : rr_log.reps[k].t = "int"

\* the sequence p is an initial part of the sequence q
Prefix(p, q) == Len(p) <= Len(q) /\ \A k \in 1..Len(p) : p[k] = q[k]

\* C16: sustained request/reply. As long as the calls come in whole cycles
\* (Requester.send, Replier.recv, Replier.send, Requester.recv, each begun
\* after the one before has returned), however many cycles there were, every
\* send has returned True, every recv has returned a value, the i-th value
\* returned by Replier.recv is the i-th request and the i-th value returned
\* by Requester.recv is the i-th reply.
C16_Sustained ==
    (rr_log.inorder /\ IntsOnly) =>
        /\ \A e \in {"requester", "replier"} : rr_ep[e].ret \in {"none", "True", "value"}
        /\ Prefix(rr_log.rp_got, rr_log.reqs)
        /\ Prefix(rr_log.rq_got, rr_log.reps)

\* C17: timeout outcomes in request/reply. The poll of a Requester.request
\* that finds a reply readable returns that reply, and a request ends in no
\* other way than with a reply or, nothing being readable when the deadline
\* has passed, with SHMTimeoutError; a plain recv that ends with nothing
\* readable returns an absent value and leaves its cursor and both segments
\* as they were.
C17_Timeouts ==
    [][ \A e \in {"requester", "replier"} :
          (rr_ep[e].pc = "result" /\ rr_ep'[e] # rr_ep[e]) =>
              /\ (rr_ep[e].call = "request" /\ rr_ep[e].hit) =>
                    /\ rr_ep'[e].ret = "value"
                    /\ rr_ep'[e].val = deserialize(rr_ep[e].raw)
              /\ (rr_ep[e].call = "request" /\ rr_ep'[e].pc = "idle") =>
                    rr_ep'[e].ret \in {"value", "SHMTimeoutError"}
              /\ (rr_ep'[e].ret = "SHMTimeoutError") =>
                    /\ rr_ep[e].call = "request"
                    /\ ~rr_ep[e].hit
                    /\ rr_ep[e].finite
              /\ (rr_ep[e].call = "recv" /\ ~rr_ep[e].hit /\ rr_ep'[e].pc = "idle") =>
                    /\ rr_ep'[e].ret = "absent"
                    /\ rr_ep[e].finite
                    /\ rr_ep'[e].tail = rr_ep[e].tail
                    /\ rr_shm' = rr_shm
      ]_vars

\* C18: reply matching. With a Replier that answers every request it
\* receives exactly once, the value a Requester.recv or Requester.request
\* returns is the reply to the most recent request the Requester has sent,
\* also after earlier receives that timed out (the Requester following every
\* send by one recv).
C18_ReplyMatches ==
    (rr_ep["requester"].ret = "value" /\ rr_log.paired /\ IntsOnly) =>
        rr_ep["requester"].val = IntObj(10 + rr_log.last.v)

\* C19: full-ring signalling in request/reply. A Requester.send or
\* Replier.send whose target ring is not full goes on to write and returns
\* True; one whose target ring is full raises SHMBufferFullError; a full
\* ring is reported in no other way, in particular never by returning False.
C19_FullRaises ==
    [][ \A e \in {"requester", "replier"} :
          /\ (rr_ep[e].pc = "loop" /\ rr_ep[e].call = "send" /\ rr_ep'[e] # rr_ep[e]) =>
                IF ring_full(rr_shm[Out(e)].hdr.HEAD, rr_shm[Out(e)].hdr.TAIL)
                THEN rr_ep'[e].pc = "idle" /\ rr_ep'[e].ret = "SHMBufferFullError"
                ELSE rr_ep'[e].pc = "write"
          /\ (rr_ep[e].pc = "count" /\ rr_ep[e].call = "send" /\ rr_ep'[e] # rr_ep[e]) =>
                rr_ep'[e].ret = "True"
          /\ rr_ep'[e].ret # "False"
      ]_vars

\* the payloads claimed through TAIL so far are, in claim order, the
\* messages the Pusher committed, in commit order
ClaimedInCommitOrder ==
    /\ Len(taken) <= Len(committed)
    /\ \A k \in 1..Len(taken) : taken[k] = serialize(committed[k])

\* C20: push/pull FIFO. The messages are claimed through the shared TAIL in
\* the order in which the Pusher committed them, and the values a single
\* Puller's recv calls have returned are the messages sent, in send order
\* with none skipped.
C20_Fifo ==
    /\ ClaimedInCommitOrder
    /\ Prefix(got, committed)

\* Puller i is inside the with-block of _try_claim: it has acquired the
\* file lock and not released it yet
InLock(i) == pull[i].pc \in {"load", "read", "store", "release"}

\* C21: file-lock mutual exclusion. At most one Puller's FileLock holds the
\* channel's lock at any time: an acquire returns only when no other Puller
\* is between its acquire and its release, so at most one Puller at a time
\* is reading and storing TAIL, and TAIL is stored only by the lock holder.
C21_MutualExclusion ==
    /\ [](\A i, j \in Pullers : (InLock(i) /\ InLock(j)) => i = j)
    /\ [](\A i \in Pullers : InLock(i) => lock = i)
    /\ [][ \A i \in Pullers :
              (pull[i].pc = "acquire" /\ pull'[i].pc = "load") =>
                  /\ lock = 0
                  /\ \A j \in Pullers : ~InLock(j)
         ]_vars
    /\ [][ (hdr'.TAIL # hdr.TAIL) =>
              \E i \in Pullers : lock = i /\ pull[i].pc = "store" /\ pull'[i].pc = "release"
         ]_vars

\* C21 witness: Puller 1 holds the lock and is about to store TAIL while
\* Puller 2 is trying to acquire it
C21_Witness ==
    /\ lock = 1
    /\ pull[1].pc = "store"
    /\ pull[2].pc = "acquire"

\* the lock file is locked through a descriptor of some FileLock other than k
HeldByOther(k) == \E j \in FileLocks \ {k} : lock = j \/ lock = -j

\* C22: a FileLock that finds the lock held by another never acquires it: its pass
\* either sleeps or, only with a finite timeout, raises SHMTimeoutError, and after
\* that this FileLock has no descriptor and the holder is unchanged; release by a
\* FileLock without a descriptor changes neither the lock nor a descriptor, so a
\* second release is like none; no release frees a lock held by another
C22_TimeoutAndRelease ==
    /\ [][ \A k \in FileLocks :
              (flk[k].pc = "loop" /\ HeldByOther(k) /\ flk'[k] # flk[k]) =>
                  /\ flk[k].finite
                  /\ flk'[k].ret = "SHMTimeoutError"
                  /\ flk'[k].pc = "idle"
                  /\ ~flk'[k].fd
                  /\ lock' = lock ]_vars
    /\ [][ \A k \in FileLocks :
              (flk[k].pc = "idle" /\ flk'[k].pc = "idle" /\ flk'[k] # flk[k]) =>
                  /\ flk'[k].ret = "released"
                  /\ ~flk'[k].fd
                  /\ ~flk[k].fd => lock' = lock
                  /\ HeldByOther(k) => lock' = lock ]_vars
    /\ [](\A k \in FileLocks : (flk[k].pc = "idle" /\ flk[k].ret = "SHMTimeoutError") =>
              (~flk[k].fd /\ lock # k))

\* FileLock 1 timed out on the lock FileLock 2 holds, then released: 2 still holds it
C22_Witness ==
    /\ flk[1].ret = "released"
    /\ flk[1].prev = "SHMTimeoutError"
    /\ flk[1].pc = "idle"
    /\ lock = 2
    /\ flk[2].fd
    /\ flk[2].pc = "idle"

\* C23: a Puller holds the lock only between acquire and release inside _try_claim:
\* never while it deserializes what it took, and never once its receive attempt
\* has finished, whether with a message, with nothing or with a
\* deserialization error
C23_ScopedRelease ==
    \A i \in Pullers :
        /\ pull[i].pc \in {"idle", "acquire", "result"} => lock # i
        /\ lock = i => InLock(i)

\* Puller 1's recv ended in a deserialization error and Puller 2 holds the lock
C23_Witness ==
    /\ pull[1].pc = "idle"
    /\ pull[1].raised
    /\ lock = 2
    /\ pull[2].pc \in {"load", "read", "store"}

\* C24: closing an endpoint that is already Closed raises nothing and leaves the
\* segment names, the segments' headers and every other endpoint as they are, and
\* the endpoint Closed holding nothing; no step brings a Closed endpoint back
C24_CloseIdempotent ==
    [][ \A e \in Owners \cup Attachers :
           lc[e].pc = "closed" =>
              /\ lc'[e].pc = "closed"
              /\ lc'[e].shm = [n \in Names |-> 0]
              /\ lc'[e].err = "none"
              /\ lc'[e].closes # lc[e].closes =>
                    /\ shm_names' = shm_names
                    /\ shm_segs' = shm_segs
                    /\ \A o \in (Owners \cup Attachers) \ {e} : lc'[o] = lc[o] ]_vars

\* the first owner has been closed twice, its successor is open with an attacher
\* attached to its segment
C24_Witness ==
    /\ lc[1].pc = "closed"
    /\ lc[1].closes = 2
    /\ lc[2].pc = "open"
    /\ lc[3].pc = "open"
    /\ \A k \in 1..Len(chan) : /\ shm_names[chan[k]] = lc[2].shm[chan[k]]
                               /\ lc[3].shm[chan[k]] = lc[2].shm[chan[k]]
    /\ lc[4].closes = 2

\* C25: no step of an attaching endpoint (constructing, attaching, closing, closing
\* again) removes or changes a segment name; the close of an open owner removes
\* every name it holds; an attach that finds no segment under the name never
\* returns one: it sleeps or fails with the did-not-appear connection error
C25_OnlyOwnerDestroys ==
    /\ [][ \A a \in Attachers : lc'[a] # lc[a] => shm_names' = shm_names ]_vars
    /\ [][ \A e \in Owners :
              (lc[e].pc = "open" /\ lc'[e].pc = "closed") =>
                  \A n \in Names : lc[e].shm[n] # 0 => shm_names'[n] = 0 ]_vars
    /\ [][ \A a \in Attachers :
              (lc[a].pc = "poll" /\ shm_names[CurName(a)] = 0 /\ lc'[a] # lc[a]) =>
                  /\ lc'[a].shm = lc[a].shm
                  /\ \/ lc'[a].pc = "poll"
                     \/ lc'[a].pc = "failed" /\ lc'[a].err = "timeout" ]_vars

\* attacher 4 attached and was closed, the owner went on and was closed, no owner
\* followed, and attacher 3 slept on the missing name until its deadline
C25_Witness ==
    /\ lc[4].pc = "closed"
    /\ lc[1].pc = "closed"
    /\ shm_segs # <<>>
    /\ shm_segs[Len(shm_segs)].MSG_COUNT > 0
    /\ lc[2].pc = "new"
    /\ lc[3].pc = "failed"
    /\ lc[3].err = "timeout"
    /\ lc[3].polls = MaxPolls
    /\ \A n \in Names : shm_names[n] = 0

\* the header create_segment hands back
FreshHeader == [MAGIC |-> MAGIC, VERSION |-> VERSION, HEAD |-> 0, TAIL |-> 0, MSG_COUNT |-> 0,
                DROP_COUNT |-> 0, NUM_SLOTS |-> NumSlots, SLOT_SIZE |-> SlotSize]

\* C26: create_segment on a name never fails, whatever an earlier owner left under
\* it; when it returns, the name denotes the segment it returns and that segment's
\* header is MAGIC, VERSION, zero cursors and counters and the requested geometry;
\* an attach that returns while an owner is open returns that owner's segment,
\* never one left by an earlier owner
C26_CreateReclaims ==
    /\ [](\A e \in Owners : lc[e].pc # "failed")
    /\ [][ \A e \in Owners :
              (lc[e].pc = "rest" /\ lc'[e].pc # "rest") =>
                 LET n == CurName(e)
                 IN /\ shm_names'[n] = lc[e].shm[n]
                    /\ lc'[e].shm[n] = lc[e].shm[n]
                    /\ shm_segs'[lc[e].shm[n]] = FreshHeader ]_vars
    /\ [][ \A a \in Attachers, e \in Owners, n \in Names :
              (lc[e].pc = "open" /\ lc'[a].shm[n] # lc[a].shm[n] /\ lc'[a].shm[n] # 0) =>
                  lc'[a].shm[n] = lc[e].shm[n] ]_vars

\* the first owner crashed leaving a ring with committed messages; the second owner
\* created over it and an attacher attached to the new, empty segment
C26_Witness ==
    /\ lc[1].pc = "crashed"
    /\ shm_segs[lc[1].shm[chan[Len(chan)]]].MSG_COUNT > 0
    /\ lc[2].pc = "open"
    /\ lc[3].pc = "open"
    /\ \A k \in 1..Len(chan) :
          /\ lc[3].shm[chan[k]] = lc[2].shm[chan[k]]
          /\ shm_segs[lc[2].shm[chan[k]]] = FreshHeader

\* the header cells attach_segment validates are as expected
ValidHeader(h) == h.MAGIC = MAGIC /\ h.VERSION = VERSION

\* C27: an attach polling for a segment fails only through its deadline: whatever
\* the owner's create_segment is doing meanwhile, a poll before the deadline
\* either sleeps or returns a segment whose header validates
C27_AttachBeforeCreate ==
    [][ \A a \in Attachers :
           (lc[a].pc = "poll" /\ lc'[a] # lc[a]) =>
               /\ lc'[a].pc = "failed" => lc'[a].err = "timeout"
               /\ \A n \in Names :
                     lc'[a].shm[n] # lc[a].shm[n] => ValidHeader(shm_segs[lc'[a].shm[n]]) ]_vars

QuietSnapshot == Len(committed) = st.c /\ Len(taken) = st.t

\* C29: the dict of every get_stats call, whatever writes and reads ran during it,
\* has used_slots = (head - tail) mod num_slots and free_slots = num_slots -
\* used_slots - 1, both within 0 .. num_slots - 1; a snapshot taken with no HEAD or
\* TAIL store under way has free_slots = num_slots - 1 less the number of messages
\* committed and not yet read: num_slots - 1 on the empty ring, and one less for
\* each write committed with no read in between
C29_StatsConsistent ==
    /\ [](st.out.num_slots # 0 =>
            /\ st.out.num_slots = NumSlots
            /\ st.out.used_slots = (st.out.head - st.out.tail) % st.out.num_slots
            /\ st.out.free_slots = st.out.num_slots - st.out.used_slots - 1
            /\ st.out.used_slots \in 0..(st.out.num_slots - 1)
            /\ st.out.free_slots \in 0..(st.out.num_slots - 1))
    /\ [][ (st.pc = "rest" /\ st'.pc = "idle" /\ QuietSnapshot) =>
              st'.out.free_slots = NumSlots - 1 - (st.c - st.t) ]_vars

\* a snapshot of the ring holding two committed, unread messages
C29_Witness ==
    /\ st.pc = "idle"
    /\ st.out.head = 2
    /\ st.out.tail = 0
    /\ st.out.msg_count = 2
    /\ st.out.used_slots = 2
    /\ st.out.free_slots = NumSlots - 3

\* C30: a recv with timeout 0 makes one read attempt and returns after it, with the
\* attempt's result or with nothing; a recv with a finite timeout returns; a recv
\* with no timeout returns only from an attempt that found a message, and polls
\* again after an attempt that found none
C30_RecvTimeouts ==
    /\ [][ \A i \in {1} :
              /\ (sub[i].pc = "idle" /\ sub'[i].pc # "idle") => sub'[i].pc = "load"
              /\ (sub[i].pc = "result" /\ sub'[i] # sub[i]) =>
                    LET result == IF sub[i].hit THEN deserialize(sub[i].raw) ELSE NoneObj
                    IN /\ sub[i].zero =>
                             /\ sub'[i].pc = "idle"
                             /\ sub'[i].got = sub[i].got \/ sub'[i].got = Append(sub[i].got, result)
                             /\ ~sub[i].hit => sub'[i].got = sub[i].got
                       /\ (~sub[i].finite /\ sub'[i].pc = "idle") =>
                             /\ sub[i].hit
                             /\ sub'[i].got = Append(sub[i].got, result)
                       /\ (~sub[i].finite /\ ~sub[i].hit) => sub'[i].pc = "load" ]_vars
    /\ \A i \in {1} : (sub[i].pc \in {"load", "read", "result"} /\ sub[i].finite) ~> (sub[i].pc = "idle")

\* the single attempt of a recv with timeout 0 has read a message
C30_Witness ==
    /\ sub[1].pc = "result"
    /\ sub[1].zero
    /\ sub[1].hit
    /\ deserialize(sub[1].raw) = IntObj(2)

\* C31: a force_unlink call that returns True has removed the name, which existed;
\* one that returns False has changed nothing; a call on a name that is there, and
\* stays there until the call unlinks it, returns True; a call on a name that is
\* not there returns False, and so does a call on the same name following a call
\* with no segment created in between
C31_ForceUnlink ==
    [][ (fu' # fu /\ fu'.pc = "idle") =>
           /\ fu'.ret = "True" =>
                 /\ shm_names[fu.name] # 0
                 /\ shm_names'[fu.name] = 0
           /\ fu'.ret = "False" => shm_names' = shm_names
           /\ (fu.pc = "unlink" /\ shm_names[fu.name] # 0) => fu'.ret = "True"
           /\ (fu.pc = "idle" /\ shm_names[fu'.last] = 0) => fu'.ret = "False"
           /\ (fu.ret # "none" /\ fu'.last = fu.last /\ Len(shm_segs) = fu.segs) =>
                 fu'.ret = "False"
           /\ \A n \in Names : n # fu'.last => shm_names'[n] = shm_names[n]
           /\ shm_segs' = shm_segs /\ lc' = lc ]_vars

\* a call removed the name of an open owner's segment and the next call on that
\* name found nothing
C31_Witness ==
    /\ fu.pc = "idle"
    /\ fu.prev = "True"
    /\ fu.ret = "False"
    /\ fu.last = 1
    /\ fu.segs = Len(shm_segs)
    /\ lc[1].pc = "open"
    /\ shm_names[1] = 0

\* the slots between TAIL and HEAD: committed and not yet claimed
Unclaimed(idx) == (idx - hdr.TAIL) % hdr.NUM_SLOTS < (hdr.HEAD - hdr.TAIL) % hdr.NUM_SLOTS

\* C32: with one non-overwrite producer and lock-holding shared-tail consumers,
\* and every length/payload store and load a step of its own, each payload a
\* read returns is the full payload of one write call, and no store of the
\* producer goes to a slot in [TAIL, HEAD)
C32_NoPartialSlot ==
    /\ [](\A k \in 1..Len(taken) : \E j \in 1..Len(committed) : taken[k] = committed[j].v)
    /\ [][\A idx \in DOMAIN slots : slots'[idx] # slots[idx] => ~Unclaimed(idx)]_vars

\* a read between its two loads while a write is between its two stores, in a
\* slot that has been used before, after earlier payloads were returned
C32_Witness ==
    /\ \E i \in Pullers : pull[i].pc = "bytes"
    /\ prod.pc = "data"
    /\ calls > hdr.NUM_SLOTS
    /\ Len(taken) >= 2

\* the payloads handed to write_message so far
Written == {committed[j].v : j \in 1..Len(committed)}
               \cup (IF prod.pc \in {"write", "data", "commit"} THEN {prod.payload} ELSE {})

\* C33: with one overwrite producer and a private-cursor subscriber, and every
\* length/payload store and HEAD/length/payload load a step of its own, each
\* payload a subscriber read returns is the full payload of one write call
C33_NoPartialSlotOverwrite ==
    \A k \in 1..Len(sub[1].got) : sub[1].got[k].v \in Written

\* the cells of header h that only the producer-side write may store
ProducerCells(h) == <<h.HEAD, h.MSG_COUNT, h.DROP_COUNT>>

\* the cells of header h that nothing may store after create
GeometryCells(h) == <<h.NUM_SLOTS, h.SLOT_SIZE>>

\* C34: in every step of every endpoint operation of the three patterns, HEAD,
\* MSG_COUNT and DROP_COUNT of a segment change only in a step of the write of
\* that channel's producer, TAIL only in the TAIL store of read_shared, the
\* geometry cells never; a step of stats or of a private-cursor read leaves
\* header and slots as they were
C34_SingleWriterCells ==
    [][/\ ProducerCells(hdr') # ProducerCells(hdr) =>
             (prod.pc \in {"loop", "commit", "count"} /\ prod' # prod)
       /\ hdr'.TAIL # hdr.TAIL =>
             (\E i \in Pullers : pull[i].pc = "store" /\ pull'[i].pc = "release")
       /\ GeometryCells(hdr') = GeometryCells(hdr)
       /\ (st' # st \/ sub' # sub) => (hdr' = hdr /\ slots' = slots)
       /\ \A e \in {"requester", "replier"} :
             /\ ProducerCells(rr_shm'[Out(e)].hdr) # ProducerCells(rr_shm[Out(e)].hdr) =>
                   (rr_ep[e].pc \in {"loop", "commit", "count"} /\ rr_ep'[e] # rr_ep[e])
             /\ rr_shm'[Out(e)].hdr.TAIL = rr_shm[Out(e)].hdr.TAIL
             /\ GeometryCells(rr_shm'[Out(e)].hdr) = GeometryCells(rr_shm[Out(e)].hdr)
             /\ (rr_ep[e].pc \in {"load", "read", "result"} /\ rr_ep'[e] # rr_ep[e]) =>
                   rr_shm' = rr_shm
      ]_vars

\* every kind of header store has happened on its channel: a commit and a drop
\* on the push/pull channel with a TAIL store and a stats call, or a commit
\* with a Subscriber read, or a commit on each channel of the service
C34_Witness ==
    \/ hdr.MSG_COUNT > 0 /\ hdr.DROP_COUNT > 0 /\ hdr.TAIL # 0 /\ st.pc = "rest"
    \/ hdr.MSG_COUNT > 0 /\ sub[1].got # <<>> /\ st.pc = "rest"
    \/ rr_shm["req"].hdr.MSG_COUNT > 0 /\ rr_shm["rep"].hdr.MSG_COUNT > 0

\* C35: the private cursor of an endpoint starts at the HEAD current when it is
\* constructed: no reply that was committed to the reply channel before a
\* Requester attached is returned by a recv of that Requester
C35_CursorStartsAtHead ==
    \A k \in (rr_log.seen + 1)..Len(rr_log.rq_got) : rr_log.rq_got[k] \notin rr_log.old

\* the messages read_message_spsc has returned to consumer i since it attached,
\* and the messages committed since then
Received(i) == Len(sub[i].got) + (IF sub[i].pc = "result" /\ sub[i].hit THEN 1 ELSE 0)

CommittedSince(i) == Len(committed) - sub[i].base

C37_AttachInitialised ==
    [][\A a \in Attachers, n \in Names :
          (lc'[a].shm[n] # lc[a].shm[n] /\ lc'[a].shm[n] # 0) =>
              LET s == lc'[a].shm[n]
              IN /\ shm_segs[s].NUM_SLOTS = NumSlots
                 /\ shm_segs[s].SLOT_SIZE = SlotSize
                 /\ \A e \in Owners : ~(lc[e].pc \in {"magic", "version", "rest"}
                                        /\ lc[e].shm[CurName(e)] = s)]_vars

\* C38: whenever a receive attempt of a Puller has advanced TAIL past a message
\* whose payload the codec can decode, the recv call that made the attempt
\* returns that message's value, be it None or False
C38_ConsumedIsReturned ==
    [][\A i \in Pullers :
          (pull[i].pc = "result" /\ pull'[i].pc # "result" /\ pull[i].hit
             /\ deserialize(pull[i].raw) # ErrObj) =>
                (pull'[i].pc = "idle" /\ got' = Append(got, deserialize(pull[i].raw)))]_vars

\* C39: a close removes no segment created by a different owner that is still
\* open: when owner B has created the channel after owner A, A's close leaves
\* the name denoting B's segment
C39_CloseOwnSegmentOnly ==
    [][\A e \in Owners \cup Attachers, o \in Owners, n \in Names :
          (lc[e].closes # lc'[e].closes /\ o # e /\ lc[o].pc = "open"
             /\ lc[o].shm[n] # 0 /\ shm_names[n] = lc[o].shm[n]) =>
                shm_names'[n] = shm_names[n]]_vars
====
